---- MODULE Spec2Model ----
(***************************************************************************)
(* Encrypted manifest store of cloud-files-web (src/src/lib/manifest.ts)   *)
(* with the object-storage transport it calls (storage-client.ts).         *)
(*                                                                         *)
(* Every exported async function is a task: its synchronous prefix is one  *)
(* step, and every await on the network or on WebCrypto ends a step, so    *)
(* that other calls, lockManifest and the uploads of other tabs interleave *)
(* exactly where the JavaScript event loop lets them.                      *)
(***************************************************************************)
EXTENDS Integers, Sequences, FiniteSets, TLC

(* ---- bounds ---- *)
MaxFiles == 2        \* longest files[] array explored
MaxClock == 3        \* number of Date readings (initialize + mutations)
MaxEntries == 1      \* longest notes[] / events[] array explored
MaxIds == 1          \* ids drawn by generateNoteId, generateEventId each
MaxUuids == 3        \* ids drawn by crypto.randomUUID (generateFileId, copyFilesToFolder)
MaxFolderClock == 5  \* number of Date readings where folders are explored

Inst      == {1, 2}                          \* browser tabs / devices
Slots     == {1, 2}                          \* calls in flight per tab
Passwords == {"correctbatteryhorse", "wrong"}
Salts     == {"s1", "s2"}                    \* values of generateSalt()
FileIds   == {"f1", "f2"}
Names     == {"a.txt", "b.txt"}

(* ---- nullable values: null is <<>>, a value v is <<v>> ---- *)
Null    == <<>>
Some(v) == <<v>>
NoKey   == <<>>
NoSalt  == "none"

VARIABLES
  store,           \* remote object store: .manifest.salt and .manifest.enc
  manifestCache,   \* [Inst -> Null | Some(Manifest)]   module variable
  masterKeyCache,  \* [Inst -> NoKey | key]              module variable
  saltCache,       \* [Inst -> NoSalt | salt]            module variable
  siblings,        \* [Inst -> notes / calendar caches]  (notes.ts module variables)
  session,         \* [Inst -> sessionStorage of the tab]
  tasks,           \* [Inst -> [Slots -> call in flight or finished]]
  now,             \* the clock read by new Date()
  lastPut,         \* history: the tab whose manifest upload landed last (0: none)
  hist,            \* history per tab, read only by the properties
  objects,         \* remote object store: every other object, by path
  call,            \* [Inst -> call in flight of the blob, notes and calendar operations]
  uuid,            \* how many ids crypto.randomUUID / generateNoteId / generateEventId drew
  share,           \* the share dialog and the share page of a visitor
  section,         \* [Inst -> the section of StorageSettings the tab shows]
  conv,            \* the buffer handed to the codecs of e2ee.ts and what they returned
  mode,            \* [Inst -> the mode of the unlock screen (ManifestUnlock)]
  user,            \* [Inst -> whether AuthContext holds a user (FALSE: user is null)]
  tokenManager     \* [Inst -> the TokenManager singleton of the tab and its callers]

\* the state of the file blobs, the notes and calendar stores and the shares
ext == <<objects, call, uuid, share, section, conv, mode, user, tokenManager>>

vars == <<store, manifestCache, masterKeyCache, saltCache, siblings, session,
          tasks, now, lastPut, hist, ext>>

(* ------------------------------------------------------------------ *)
(* Pure helpers                                                        *)
(* ------------------------------------------------------------------ *)

\* PBKDF2(password, salt): deterministic, distinct for distinct inputs
deriveMasterKey(password, salt) == <<password, salt>>

createEmptyManifest(t) ==
  [version |-> 1, files |-> <<>>, folders |-> <<>>, createdAt |-> t, updatedAt |-> t]

\* mutant: the Collection is uploaded as the JSON text it is
encryptManifest_plain(manifest, masterKey) == manifest

\* AES-GCM of JSON.stringify(manifest): the blob opens only under the same key
encryptManifest(manifest, masterKey) == [key |-> masterKey, data |-> manifest]

\* mutant: a decryption that does not authenticate the key
CanDecrypt_anyKey(blob, masterKey) == masterKey # NoKey

\* whether AES-GCM authentication succeeds
CanDecrypt(blob, masterKey) == masterKey # NoKey /\ blob.key = masterKey

decryptManifest(blob, masterKey) == blob.data

\* mutant: the key is written to sessionStorage next to the Collection
saveToSessionCache_withKey(sess, manifest) ==
  [sess EXCEPT !.cache = [present |-> TRUE, val |-> manifest, key |-> masterKeyCache]]

\* sessionStorage.setItem(SESSION_CACHE_KEY, JSON.stringify(manifest));
\* JSON.stringify(null) is the string "null": present, holding no Collection
saveToSessionCache(sess, manifest) ==
  [sess EXCEPT !.cache = [present |-> TRUE, val |-> manifest]]

NoSession == [cache |-> [present |-> FALSE, val |-> Null], unlocked |-> FALSE]

NoSiblings == [notesManifest |-> Null, notesKey |-> NoKey,
               calendarManifest |-> Null, calendarKey |-> NoKey]

FileInfo(id, name) == [fileId |-> id, fileName |-> name, isFavorite |-> "undefined"]

\* the records the upload dialog hands to addFileToManifest
FileInputs == {FileInfo("f1", "a.txt"), FileInfo("f2", "b.txt")}

HasFile(files, id) == \E k \in 1..Len(files) : files[k].fileId = id

\* Array.prototype.find: the first match
FindIndex(files, id) ==
  CHOOSE k \in 1..Len(files) :
    /\ files[k].fileId = id
    /\ \A j \in 1..(k-1) : files[j].fileId # id

Count(files, id, name) ==
  Cardinality({k \in 1..Len(files) : files[k].fileId = id /\ files[k].fileName = name})

\* file.isFavorite = !file.isFavorite   (undefined -> true -> false -> true)
Negate(fav) == IF fav = "true" THEN "false" ELSE "true"

(* ------------------------------------------------------------------ *)
(* Tasks                                                               *)
(* ------------------------------------------------------------------ *)

NoArg == [password |-> "-", fileId |-> "-", fileName |-> "-"]

IdleTask ==
  [kind |-> "idle", pc |-> "idle", arg |-> NoArg, key |-> NoKey, salt |-> NoSalt,
   data |-> Null, blob |-> Null,
   \* history fields, kept only while the call is alone (solo)
   solo |-> FALSE, stale |-> FALSE, retry |-> FALSE, pre |-> Null, preRemote |-> Null]

MutKinds == {"addFile", "removeFile", "renameFile", "toggleFavorite"}

\* the mutations of folders and of the files' places in them
FolderKinds == {"createFolder", "renameFolder", "deleteFolder", "moveFile", "moveFiles"}

DonePcs == {"idle", "resolved", "resolvedNull", "threw", "rejected", "aborted"}

InFlight(task) == task.pc \notin DonePcs

Busy(i) == \E s \in Slots : InFlight(tasks[i][s])

\* a new call takes the first slot that holds no call in flight
CanStart(i, t) ==
  /\ ~InFlight(tasks[i][t])
  /\ \A s \in Slots : s < t => InFlight(tasks[i][s])

\* history: the call is no longer the only thing happening on its tab
NotAlone(task) == [task EXCEPT !.solo = FALSE, !.pre = Null, !.preRemote = Null]

\* the call starts: the outcome of the previous call is forgotten, what is in
\* flight is no longer alone
Begin(i, t, task) ==
  tasks' = [tasks EXCEPT ![i] =
              [s \in Slots |->
                 IF s = t THEN (IF Busy(i) THEN NotAlone(task) ELSE [task EXCEPT !.solo = TRUE])
                 ELSE IF InFlight(tasks[i][s]) THEN NotAlone(tasks[i][s])
                      ELSE IdleTask]]

NewTask(i, kind, pc, arg) ==
  [IdleTask EXCEPT !.kind = kind, !.pc = pc, !.arg = arg,
                   !.pre = manifestCache[i], !.preRemote = store.manifest]

Step(i, t, task) == tasks' = [tasks EXCEPT ![i][t] = task]

\* the call settles: its outcome stays visible until the next call or lock,
\* if nothing else happened on the tab meanwhile
Settled(task, pc) ==
  IF task.solo
  THEN [IdleTask EXCEPT !.kind = task.kind, !.pc = pc, !.arg = task.arg,
                        !.solo = TRUE, !.retry = task.retry, !.pre = task.pre]
  ELSE IdleTask

Finish(i, t, pc) == Step(i, t, Settled(tasks[i][t], pc))

Unlocked(i) == manifestCache[i] # Null /\ masterKeyCache[i] # NoKey

(* ------------------------------------------------------------------ *)
(* The further state: blobs, notes and calendar calls, ids, shares     *)
(* ------------------------------------------------------------------ *)

\* ids of the file records: the upload dialog's (FileIds) and the ones
\* crypto.randomUUID() draws, in the order it draws them
Uuids == <<"u1", "u2", "u3", "u4", "u5", "u6">>

\* generateNoteId() and generateEventId(), in the order they are drawn
NoteIds == <<"n1", "n2", "n3", "n4", "n5", "n6">>

EventIds == <<"e1", "e2", "e3", "e4", "e5", "e6">>

Range(seq) == {seq[k] : k \in 1..Len(seq)}

\* object paths: `files/${fileId}`, `notes/${noteId}.enc`, `calendar/${eventId}.enc`
\* and the two further manifests
FilePath(id) == [dir |-> "files/", id |-> id, suffix |-> ""]

NotePath(id) == [dir |-> "notes/", id |-> id, suffix |-> ".enc"]

EventPath(id) == [dir |-> "calendar/", id |-> id, suffix |-> ".enc"]

NOTES_MANIFEST_KEY == [dir |-> "", id |-> ".notes-manifest", suffix |-> ".enc"]

CALENDAR_MANIFEST_KEY == [dir |-> "", id |-> ".calendar-manifest", suffix |-> ".enc"]

Paths ==
  {FilePath(id) : id \in FileIds \cup Range(Uuids)}
    \cup {NotePath(id) : id \in Range(NoteIds)}
    \cup {EventPath(id) : id \in Range(EventIds)}
    \cup {NOTES_MANIFEST_KEY, CALENDAR_MANIFEST_KEY}

NoObjects == [p \in Paths |-> Null]

NoUuid == [files |-> 0, notes |-> 0, events |-> 0]

\* a call of the blob, notes and calendar operations: op is the function,
\* kind the store ("files", "notes", "calendar"), the rest its arguments and
\* locals; locked and found are history (the store was locked, the id was in
\* the Collection, when the call was made)
NoCall ==
  [op |-> "idle", pc |-> "idle", kind |-> "-", id |-> "-", title |-> "-",
   content |-> "-", index |-> 0, key |-> NoKey, data |-> Null,
   ids |-> <<>>, target |-> "-", newId |-> "-", made |-> <<>>, blob |-> Null,
   pw |-> "",
   locked |-> FALSE, found |-> FALSE]

CallDonePcs == {"idle", "resolved", "resolvedNull", "threw", "rejected", "delegated"}

CallInFlight(i) == call[i].pc \notin CallDonePcs

\* the caller awaits each call: nothing else of the tab is in flight
CallCanStart(i) == ~CallInFlight(i) /\ ~Busy(i)

\* the call settles: its outcome stays, with the history of how it was invoked
Outcome(c, pc) ==
  [NoCall EXCEPT !.op = c.op, !.kind = c.kind, !.pc = pc,
                 !.locked = c.locked, !.found = c.found]

\* the share page of a visitor: the link it was opened with, the step it
\* shows, the password typed, what it holds to show (fileData, noteData);
\* result is history: how the resolution of the link ended ("value", "null",
\* "threw"), fetched whether the page has used the link's fetch URL; error is
\* the message the error step shows
NoPage ==
  [link |-> Null, step |-> "password", password |-> "", fileData |-> Null,
   noteData |-> Null, result |-> "none", fetched |-> FALSE, error |-> ""]

\* token is the link the owner's share dialog shows; made is history: what
\* was shared, under which password
NoShare == [token |-> Null, made |-> Null, page |-> NoPage]

\* history of a tab: locked (lockManifest ran and no call started after it has
\* unlocked the store since); clean (the store was initialized with password pw
\* and every call since ran alone and resolved); preLock (the Collection held
\* at the last lock, while no call has touched it since)
NoHist == [locked |-> TRUE, clean |-> FALSE, pw |-> "-", preLock |-> Null]

Unclean(h) == [h EXCEPT !.clean = FALSE, !.pw = "-", !.preLock = Null]

\* type Section: "favorites" and "folder" show the file list as "all" does
Sections == {"all", "notes", "calendar"}

\* the state after construction, with every tab showing section sec
\* no buffer was handed to a codec
\* (parts is history: the segments a JPEG file was put together from)
NoConv == [pc |-> "idle", type |-> "-", data |-> <<>>, text |-> <<>>, out |-> <<>>,
           parts |-> <<>>]

\* how many callers of getValidAccessToken a tab has at once: the interval
\* timer of startAutoRefresh and the pages that call refreshAccessToken
MaxCallers == 3
Callers == 1..MaxCallers

\* how many refresh promises a tab creates during a run
MaxRefreshes == 3
Refreshes == 1..MaxRefreshes

\* new TokenManager() after sign-in: refreshPromise = null, the interval of
\* startAutoRefresh runs, the tokens are fresh
NoRefresh ==
  [ refreshPromise    |-> 0,        \* this.refreshPromise (0: null, r: the promise of request r)
    requests          |-> [r \in Refreshes |-> "none"],  \* where the body of each promise stands
    waiting           |-> [c \in Callers |-> 0],         \* the promise a caller awaits (0: none)
    refreshIntervalId |-> TRUE,     \* this.refreshIntervalId !== null
    accessExpired     |-> FALSE,    \* TokenStorage.isAccessTokenExpired()
    refreshExpired    |-> FALSE,    \* TokenStorage.isRefreshTokenExpired()
    leaving           |-> FALSE ]   \* handleLogout awaits logout()

InitWith(sec, c) ==
  /\ store = [salt |-> NoSalt, manifest |-> Null]
  /\ manifestCache = [i \in Inst |-> Null]
  /\ masterKeyCache = [i \in Inst |-> NoKey]
  /\ saltCache = [i \in Inst |-> NoSalt]
  /\ siblings = [i \in Inst |-> NoSiblings]
  /\ session = [i \in Inst |-> NoSession]
  /\ tasks = [i \in Inst |-> [s \in Slots |-> IdleTask]]
  /\ now = 0
  /\ lastPut = 0
  /\ hist = [i \in Inst |-> NoHist]
  /\ objects = NoObjects
  /\ call = [i \in Inst |-> NoCall]
  /\ uuid = NoUuid
  /\ share = NoShare
  /\ section = [i \in Inst |-> sec]
  /\ conv = c
  /\ mode = [i \in Inst |-> "check"]     \* useState("check")
  /\ user = [i \in Inst |-> TRUE]        \* the page is shown to a signed-in user
  /\ tokenManager = [i \in Inst |-> NoRefresh]

InitOn(sec) == InitWith(sec, NoConv)

\* useState<Section>("all")
Init == InitOn("all")


(* ------------------------------------------------------------------ *)
(* History bookkeeping (never read by an action's guard or effect)     *)
(* ------------------------------------------------------------------ *)

\* a call starts: an overlap with a call in flight ends the clean run
Overlap(h, i) == IF Busy(i) THEN Unclean(h) ELSE h

\* a call that may change the Collection starts
Touch(h, i) == [Overlap(h, i) EXCEPT !.preLock = Null]

(* ------------------------------------------------------------------ *)
(* lockManifest: synchronous                                           *)
(* ------------------------------------------------------------------ *)

\* the assignments and removals of lockManifest()
lockManifest_body(i) ==
  /\ manifestCache' = [manifestCache EXCEPT ![i] = Null]
  /\ masterKeyCache' = [masterKeyCache EXCEPT ![i] = NoKey]
  /\ saltCache' = [saltCache EXCEPT ![i] = NoSalt]
  /\ siblings' = [siblings EXCEPT ![i] = NoSiblings]      \* clearNotesCache, clearCalendarCache
  /\ session' = [session EXCEPT ![i] = NoSession]         \* removeItem x 2
  /\ tasks' = [tasks EXCEPT ![i] =
                 [s \in Slots |->
                    IF InFlight(tasks[i][s])
                    THEN [NotAlone(tasks[i][s]) EXCEPT !.stale = TRUE]
                    ELSE IdleTask]]
  /\ hist' = [hist EXCEPT ![i] =
                IF Busy(i) \/ ~hist[i].clean
                THEN [Unclean(@) EXCEPT !.locked = TRUE]
                ELSE [@ EXCEPT !.locked = TRUE,
                               !.preLock = IF manifestCache[i] # Null
                                           THEN manifestCache[i] ELSE @]]

lockManifest(i) == lockManifest_body(i) /\ UNCHANGED <<ext, store, now, lastPut>>

(* ------------------------------------------------------------------ *)
(* uploadToStorage / downloadFromStorage: the transport's outcomes     *)
(* ------------------------------------------------------------------ *)

\* PUT .manifest.salt answered 2xx
uploadToStorage_salt(i, t) ==
  /\ tasks[i][t].pc = "putSalt"
  /\ store' = [store EXCEPT !.salt = tasks[i][t].salt]
  /\ Step(i, t, [tasks[i][t] EXCEPT !.pc = "putManifest"])
  /\ UNCHANGED <<ext, manifestCache, masterKeyCache, saltCache, siblings, session, now,
                 lastPut, hist>>

\* mutant: the upload keeps the remote records the uploaded Collection lacks
uploadToStorage_manifest_merge(i, t) ==
  /\ tasks[i][t].pc = "putManifest"
  /\ LET mine == tasks[i][t].data[1]
         theirs == IF store.manifest = Null THEN <<>> ELSE store.manifest[1].data.files
         kept == SelectSeq(theirs, LAMBDA f : ~HasFile(mine.files, f.fileId))
     IN store' = [store EXCEPT !.manifest =
                    Some(encryptManifest([mine EXCEPT !.files = kept \o @],
                                         tasks[i][t].key))]
  /\ Step(i, t, [tasks[i][t] EXCEPT !.pc = "uploaded"])
  /\ lastPut' = i
  /\ UNCHANGED <<ext, manifestCache, masterKeyCache, saltCache, siblings, session, now, hist>>

\* PUT .manifest.enc answered 2xx: the blob is replaced whole
uploadToStorage_manifest(i, t) ==
  /\ tasks[i][t].pc = "putManifest"
  /\ store' = [store EXCEPT !.manifest =
                 Some(encryptManifest(tasks[i][t].data[1], tasks[i][t].key))]
  /\ Step(i, t, [tasks[i][t] EXCEPT !.pc = "uploaded"])
  /\ lastPut' = i
  /\ UNCHANGED <<ext, manifestCache, masterKeyCache, saltCache, siblings, session, now, hist>>

\* mutant: a failed upload rolls the in-memory Collection back
uploadToStorage_fail_revert(i, t) ==
  /\ tasks[i][t].pc \in {"putSalt", "putManifest"}
  /\ Finish(i, t, "rejected")
  /\ manifestCache' = [manifestCache EXCEPT ![i] = tasks[i][t].pre]
  /\ hist' = [hist EXCEPT ![i] = Unclean(@)]
  /\ UNCHANGED <<ext, store, masterKeyCache, saltCache, siblings, session, now, lastPut>>

\* xhr "load" with a non-2xx status, or xhr "error": the promise rejects
uploadToStorage_fail(i, t) ==
  /\ tasks[i][t].pc \in {"putSalt", "putManifest"}
  /\ Finish(i, t, "rejected")
  /\ hist' = [hist EXCEPT ![i] = Unclean(@)]
  /\ UNCHANGED <<ext, store, manifestCache, masterKeyCache, saltCache, siblings, session,
                 now, lastPut>>

\* xhr "abort": the promise rejects with "Upload aborted"
uploadToStorage_abort(i, t) ==
  /\ tasks[i][t].pc \in {"putSalt", "putManifest"}
  /\ Finish(i, t, "aborted")
  /\ hist' = [hist EXCEPT ![i] = Unclean(@)]
  /\ UNCHANGED <<ext, store, manifestCache, masterKeyCache, saltCache, siblings, session,
                 now, lastPut>>

\* fetch answered non-2xx or failed: unlockManifest rejects, syncManifest
\* catches the error and returns null
downloadFromStorage_fail(i, t) ==
  /\ tasks[i][t].pc \in {"getSalt", "getManifest"}
  /\ Finish(i, t, IF tasks[i][t].kind = "sync" THEN "resolvedNull" ELSE "rejected")
  /\ UNCHANGED <<ext, store, manifestCache, masterKeyCache, saltCache, siblings, session,
                 now, lastPut, hist>>

(* ------------------------------------------------------------------ *)
(* initializeManifest                                                  *)
(* ------------------------------------------------------------------ *)

\* salt is the value generateSalt() draws
initializeManifest(i, t, password, salt) ==
  /\ CanStart(i, t)
  /\ now < MaxClock
  /\ Begin(i, t, [NewTask(i, "init", "putSalt", [NoArg EXCEPT !.password = password])
                    EXCEPT !.salt = salt,
                           !.key = deriveMasterKey(password, salt),
                           !.data = Some(createEmptyManifest(now))])
  /\ now' = now + 1
  /\ hist' = [hist EXCEPT ![i] = Unclean(@)]
  /\ UNCHANGED <<ext, store, manifestCache, masterKeyCache, saltCache, siblings, session,
                 lastPut>>

initializeManifest_finish(i, t) ==
  /\ tasks[i][t].kind = "init"
  /\ tasks[i][t].pc = "uploaded"
  /\ manifestCache' = [manifestCache EXCEPT ![i] = tasks[i][t].data]
  /\ masterKeyCache' = [masterKeyCache EXCEPT ![i] = tasks[i][t].key]
  /\ saltCache' = [saltCache EXCEPT ![i] = tasks[i][t].salt]
  /\ session' = [session EXCEPT ![i] =
                   [saveToSessionCache(@, tasks[i][t].data) EXCEPT !.unlocked = TRUE]]
  /\ Finish(i, t, "resolved")
  /\ hist' = [hist EXCEPT ![i] =
                IF tasks[i][t].solo
                THEN [locked |-> FALSE, clean |-> TRUE,
                      pw |-> tasks[i][t].arg.password, preLock |-> Null]
                ELSE [Unclean(@) EXCEPT !.locked = @ /\ tasks[i][t].stale]]
  /\ UNCHANGED <<ext, store, siblings, now, lastPut>>

(* ------------------------------------------------------------------ *)
(* unlockManifest                                                      *)
(* ------------------------------------------------------------------ *)

unlockManifest(i, t, password) ==
  /\ CanStart(i, t)
  /\ Begin(i, t, NewTask(i, "unlock", "getSalt", [NoArg EXCEPT !.password = password]))
  /\ hist' = [hist EXCEPT ![i] = Overlap(@, i)]
  /\ UNCHANGED <<ext, store, manifestCache, masterKeyCache, saltCache, siblings, session,
                 now, lastPut>>

\* mutant: the salt is cached as soon as it is downloaded
unlockManifest_salt_caches(i, t) ==
  /\ tasks[i][t].kind = "unlock"
  /\ tasks[i][t].pc = "getSalt"
  /\ IF store.salt = NoSalt
     THEN Finish(i, t, "rejected")
     ELSE Step(i, t, [tasks[i][t] EXCEPT
                        !.pc = "getManifest",
                        !.salt = store.salt,
                        !.key = deriveMasterKey(tasks[i][t].arg.password, store.salt)])
  /\ saltCache' = [saltCache EXCEPT ![i] = store.salt]
  /\ UNCHANGED <<ext, store, manifestCache, masterKeyCache, siblings, session,
                 now, lastPut, hist>>

\* GET .manifest.salt answered, then deriveMasterKey
unlockManifest_salt(i, t) ==
  /\ tasks[i][t].kind = "unlock"
  /\ tasks[i][t].pc = "getSalt"
  /\ IF store.salt = NoSalt
     THEN Finish(i, t, "rejected")
     ELSE Step(i, t, [tasks[i][t] EXCEPT
                        !.pc = "getManifest",
                        !.salt = store.salt,
                        !.key = deriveMasterKey(tasks[i][t].arg.password, store.salt)])
  /\ UNCHANGED <<ext, store, manifestCache, masterKeyCache, saltCache, siblings, session,
                 now, lastPut, hist>>

\* GET .manifest.enc answered, then decryptManifest under the derived key
unlockManifest_manifest(i, t) ==
  /\ tasks[i][t].kind = "unlock"
  /\ tasks[i][t].pc = "getManifest"
  /\ IF store.manifest = Null \/ ~CanDecrypt(store.manifest[1], tasks[i][t].key)
     THEN Finish(i, t, "rejected")
     ELSE Step(i, t, [tasks[i][t] EXCEPT
                        !.pc = "decrypted",
                        !.data = Some(decryptManifest(store.manifest[1], tasks[i][t].key))])
  /\ UNCHANGED <<ext, store, manifestCache, masterKeyCache, saltCache, siblings, session,
                 now, lastPut, hist>>

unlockManifest_finish(i, t) ==
  /\ tasks[i][t].kind = "unlock"
  /\ tasks[i][t].pc = "decrypted"
  /\ manifestCache' = [manifestCache EXCEPT ![i] = tasks[i][t].data]
  /\ masterKeyCache' = [masterKeyCache EXCEPT ![i] = tasks[i][t].key]
  /\ saltCache' = [saltCache EXCEPT ![i] = tasks[i][t].salt]
  /\ session' = [session EXCEPT ![i] =
                   [saveToSessionCache(@, tasks[i][t].data) EXCEPT !.unlocked = TRUE]]
  /\ Finish(i, t, "resolved")
  /\ hist' = [hist EXCEPT ![i].locked = @ /\ tasks[i][t].stale]
  /\ UNCHANGED <<ext, store, siblings, now, lastPut>>

(* ------------------------------------------------------------------ *)
(* syncManifest                                                        *)
(* ------------------------------------------------------------------ *)

syncManifest(i, t) ==
  /\ CanStart(i, t)
  /\ IF masterKeyCache[i] = NoKey \/ saltCache[i] = NoSalt
     THEN /\ Begin(i, t, Settled([NewTask(i, "sync", "resolvedNull", NoArg)
                                    EXCEPT !.solo = ~Busy(i)], "resolvedNull"))
          /\ hist' = [hist EXCEPT ![i] = Overlap(@, i)]
     ELSE /\ Begin(i, t, NewTask(i, "sync", "getManifest", NoArg))
          /\ hist' = [hist EXCEPT ![i] = Touch(@, i)]
  /\ UNCHANGED <<ext, store, manifestCache, masterKeyCache, saltCache, siblings, session,
                 now, lastPut>>

\* GET .manifest.enc answered
syncManifest_download(i, t) ==
  /\ tasks[i][t].kind = "sync"
  /\ tasks[i][t].pc = "getManifest"
  /\ IF store.manifest = Null
     THEN Finish(i, t, "resolvedNull")
     ELSE Step(i, t, [tasks[i][t] EXCEPT !.pc = "downloaded", !.blob = store.manifest])
  /\ UNCHANGED <<ext, store, manifestCache, masterKeyCache, saltCache, siblings, session,
                 now, lastPut, hist>>

\* the continuation reads masterKeyCache and calls decryptManifest; a null
\* key or a failed authentication throws into the catch block
syncManifest_decrypt(i, t) ==
  /\ tasks[i][t].kind = "sync"
  /\ tasks[i][t].pc = "downloaded"
  /\ IF ~CanDecrypt(tasks[i][t].blob[1], masterKeyCache[i])
     THEN Finish(i, t, "resolvedNull")
     ELSE Step(i, t, [tasks[i][t] EXCEPT
                        !.pc = "decrypted",
                        !.key = masterKeyCache[i],
                        !.data = Some(decryptManifest(tasks[i][t].blob[1], masterKeyCache[i]))])
  /\ UNCHANGED <<ext, store, manifestCache, masterKeyCache, saltCache, siblings, session,
                 now, lastPut, hist>>

\* mutant: the sync keeps the local records the remote Collection lacks
syncManifest_finish_merge(i, t) ==
  /\ tasks[i][t].kind = "sync"
  /\ tasks[i][t].pc = "decrypted"
  /\ LET remote == tasks[i][t].data[1]
         local == IF manifestCache[i] = Null THEN <<>> ELSE manifestCache[i][1].files
         kept == SelectSeq(local, LAMBDA f : ~HasFile(remote.files, f.fileId))
         merged == Some([remote EXCEPT !.files = @ \o kept])
     IN /\ manifestCache' = [manifestCache EXCEPT ![i] = merged]
        /\ session' = [session EXCEPT ![i] = saveToSessionCache(@, merged)]
  /\ Finish(i, t, "resolved")
  /\ UNCHANGED <<ext, store, masterKeyCache, saltCache, siblings, now, lastPut, hist>>

syncManifest_finish(i, t) ==
  /\ tasks[i][t].kind = "sync"
  /\ tasks[i][t].pc = "decrypted"
  /\ manifestCache' = [manifestCache EXCEPT ![i] = tasks[i][t].data]
  /\ session' = [session EXCEPT ![i] = saveToSessionCache(@, tasks[i][t].data)]
  /\ Finish(i, t, "resolved")
  /\ UNCHANGED <<ext, store, masterKeyCache, saltCache, siblings, now, lastPut, hist>>

(* ------------------------------------------------------------------ *)
(* Mutations: apply, bump updatedAt, encrypt, upload, save             *)
(* ------------------------------------------------------------------ *)

FileArg(id, name) == [NoArg EXCEPT !.fileId = id, !.fileName = name]

\* the guard of every mutation threw: nothing is read or changed
Threw(i, t, kind, arg) ==
  /\ Begin(i, t, Settled([NewTask(i, kind, "threw", arg) EXCEPT !.solo = ~Busy(i)], "threw"))
  /\ hist' = [hist EXCEPT ![i] = Overlap(@, i)]
  /\ UNCHANGED <<manifestCache, now>>

\* the change is applied to manifestCache in place, updatedAt is bumped, and
\* encryptManifest is called: JSON.stringify runs before its first await, so
\* the bytes that will be uploaded are the Collection as it is now
Apply(i, t, kind, arg, files, retry) ==
  /\ now < MaxClock
  /\ LET m == [manifestCache[i][1] EXCEPT !.files = files, !.updatedAt = now]
     IN /\ manifestCache' = [manifestCache EXCEPT ![i] = Some(m)]
        /\ Begin(i, t, [NewTask(i, kind, "putManifest", arg)
                          EXCEPT !.key = masterKeyCache[i], !.data = Some(m),
                                 !.retry = retry])
  /\ now' = now + 1
  /\ hist' = [hist EXCEPT ![i] = Touch(@, i)]

\* history: the call repeats the call that was just rejected at its upload,
\* whose first attempt had put the record into the Collection once
IsRetry(i, kind, arg) ==
  /\ \E s \in Slots :
       /\ tasks[i][s].kind = kind
       /\ tasks[i][s].arg = arg
       /\ tasks[i][s].pc = "rejected"
  /\ manifestCache[i] # Null
  /\ Count(manifestCache[i][1].files, arg.fileId, arg.fileName) = 1

\* addFileToManifest itself, whoever calls it
AddFile(i, t, fileInfo) ==
  /\ CanStart(i, t)
  /\ LET arg == FileArg(fileInfo.fileId, fileInfo.fileName)
     IN IF ~Unlocked(i)
        THEN Threw(i, t, "addFile", arg)
        ELSE /\ Len(manifestCache[i][1].files) < MaxFiles
             /\ Apply(i, t, "addFile", arg,
                      Append(manifestCache[i][1].files, fileInfo),
                      IsRetry(i, "addFile", arg))
  /\ UNCHANGED <<store, masterKeyCache, saltCache, siblings, session, lastPut>>

addFileToManifest(i, t, fileInfo) == AddFile(i, t, fileInfo) /\ UNCHANGED ext

\* removeFileFromManifest itself, whoever calls it
RemoveFile(i, t, fileId) ==
  /\ CanStart(i, t)
  /\ IF ~Unlocked(i)
     THEN Threw(i, t, "removeFile", FileArg(fileId, "-"))
     ELSE Apply(i, t, "removeFile", FileArg(fileId, "-"),
                SelectSeq(manifestCache[i][1].files, LAMBDA f : f.fileId # fileId),
                FALSE)
  /\ UNCHANGED <<store, masterKeyCache, saltCache, siblings, session, lastPut>>

removeFileFromManifest(i, t, fileId) == RemoveFile(i, t, fileId) /\ UNCHANGED ext

renameFile(i, t, fileId, newName) ==
  /\ CanStart(i, t)
  /\ IF ~Unlocked(i) \/ ~HasFile(manifestCache[i][1].files, fileId)
     THEN Threw(i, t, "renameFile", FileArg(fileId, newName))
     ELSE LET files == manifestCache[i][1].files
              k == FindIndex(files, fileId)
          IN Apply(i, t, "renameFile", FileArg(fileId, newName),
                   [files EXCEPT ![k].fileName = newName],
                   FALSE)
  /\ UNCHANGED <<ext, store, masterKeyCache, saltCache, siblings, session, lastPut>>

toggleFileFavorite(i, t, fileId) ==
  /\ CanStart(i, t)
  /\ IF ~Unlocked(i) \/ ~HasFile(manifestCache[i][1].files, fileId)
     THEN Threw(i, t, "toggleFavorite", FileArg(fileId, "-"))
     ELSE LET files == manifestCache[i][1].files
              k == FindIndex(files, fileId)
          IN Apply(i, t, "toggleFavorite", FileArg(fileId, "-"),
                   [files EXCEPT ![k].isFavorite = Negate(@)],
                   FALSE)
  /\ UNCHANGED <<ext, store, masterKeyCache, saltCache, siblings, session, lastPut>>

\* the continuation after `await uploadToStorage`: saveToSessionCache(manifestCache)
\* reads the module variable as it is now
saveAfterUpload(i, t) ==
  /\ tasks[i][t].kind \in MutKinds \cup FolderKinds
  /\ tasks[i][t].pc = "uploaded"
  /\ session' = [session EXCEPT ![i] = saveToSessionCache(@, manifestCache[i])]
  /\ Finish(i, t, "resolved")
  /\ UNCHANGED <<ext, store, manifestCache, masterKeyCache, saltCache, siblings, now,
                 lastPut, hist>>

(* ------------------------------------------------------------------ *)
(* Specifications                                                      *)
(* ------------------------------------------------------------------ *)

\* calls of the unlock screen (ManifestUnlock.handleSubmit)
Setup(i, t) ==
  \/ \E p \in Passwords, salt \in Salts : initializeManifest(i, t, p, salt)
  \/ \E p \in Passwords : unlockManifest(i, t, p)

\* calls of the file manager, mounted once the store is unlocked
Use(i, t) ==
  \/ syncManifest(i, t)
  \/ \E f \in FileInputs : addFileToManifest(i, t, f)
  \/ \E id \in FileIds : removeFileFromManifest(i, t, id)
  \/ \E id \in FileIds, n \in Names : renameFile(i, t, id, n)
  \/ \E id \in FileIds : toggleFileFavorite(i, t, id)

Continue(i, t) ==
  \/ uploadToStorage_salt(i, t)
  \/ uploadToStorage_manifest(i, t)
  \/ uploadToStorage_fail(i, t)
  \/ uploadToStorage_abort(i, t)
  \/ downloadFromStorage_fail(i, t)
  \/ initializeManifest_finish(i, t)
  \/ unlockManifest_salt(i, t)
  \/ unlockManifest_manifest(i, t)
  \/ unlockManifest_finish(i, t)
  \/ syncManifest_download(i, t)
  \/ syncManifest_decrypt(i, t)
  \/ syncManifest_finish(i, t)
  \/ saveAfterUpload(i, t)

\* one tab whose caller awaits each call before the next; lockManifest is
\* synchronous and may run while a call is in flight
Next ==
  \E i \in {1} :
    \/ lockManifest(i)
    \/ \E t \in {1} : Setup(i, t) \/ Use(i, t) \/ Continue(i, t)

Spec == Init /\ [][Next]_vars

SetupInFlight(i) ==
  \E s \in Slots : InFlight(tasks[i][s]) /\ tasks[i][s].kind \in {"init", "unlock"}

\* one tab whose file-manager calls overlap (handlers and the auto-refresh
\* timer do not wait for one another); the unlock screen runs alone
NextOverlap ==
  \E i \in {1} :
    \/ lockManifest(i)
    \/ \E t \in Slots :
         \/ ~Busy(i) /\ Setup(i, t)
         \/ ~SetupInFlight(i) /\ Use(i, t)
         \/ Continue(i, t)

SpecOverlap == Init /\ [][NextOverlap]_vars

\* two tabs on the same bucket that stay open (no lockManifest) over a working
\* network, each awaiting a call before the next
NextTwo ==
  \E i \in Inst :
    \E t \in {1} :
      \/ /\ i = 1
         \* the store is created once, by the first tab: which password it
         \* chooses and which salt generateSalt() draws is immaterial
         /\ store.salt = NoSalt
         /\ initializeManifest(i, t, "correctbatteryhorse", "s1")
      \/ \E p \in Passwords : unlockManifest(i, t, p)
      \/ Use(i, t)
      \/ uploadToStorage_salt(i, t)
      \/ uploadToStorage_manifest(i, t)
      \/ initializeManifest_finish(i, t)
      \/ unlockManifest_salt(i, t)
      \/ unlockManifest_manifest(i, t)
      \/ unlockManifest_finish(i, t)
      \/ syncManifest_download(i, t)
      \/ syncManifest_decrypt(i, t)
      \/ syncManifest_finish(i, t)
      \/ saveAfterUpload(i, t)

SpecTwo == Init /\ [][NextTwo]_vars

(* ------------------------------------------------------------------ *)
(* Properties                                                          *)
(* ------------------------------------------------------------------ *)

Files(m) == m[1].files

\* the call in slot t of tab i takes a step of its own
OwnStep(i, t) == InFlight(tasks[i][t]) /\ tasks'[i][t].pc # tasks[i][t].pc

\* the Collection the remote blob holds, as its owner would decrypt it
Remote == Some(store.manifest[1].data)

\* C1: after initializeManifest(p) and calls that each ran alone and resolved,
\* lockManifest followed by unlockManifest(p) installs the Collection that was
\* held just before the lock, and unlockManifest(q) with q # p never gets
\* past the decryption
C1_LockUnlockRoundTrip ==
  \A i \in Inst, t \in Slots :
    (tasks[i][t].kind = "unlock" /\ tasks[i][t].solo /\ hist[i].clean) =>
      /\ (tasks[i][t].pc = "resolved" /\ hist[i].preLock # Null) =>
            /\ tasks[i][t].arg.password = hist[i].pw
            /\ manifestCache[i] = hist[i].preLock
            /\ masterKeyCache[i] # NoKey
      /\ tasks[i][t].arg.password # hist[i].pw =>
            tasks[i][t].pc \in {"getSalt", "getManifest", "rejected"}

\* f1 named a.txt was added, the store was locked and unlocked again with the
\* same password, and f1 is there
C1_Witness ==
  /\ tasks[1][1].kind = "unlock" /\ tasks[1][1].pc = "resolved"
  /\ hist[1].clean /\ hist[1].pw = "correctbatteryhorse"
  /\ hist[1].preLock # Null
  /\ manifestCache[1] = hist[1].preLock
  /\ Count(Files(manifestCache[1]), "f1", "a.txt") = 1

\* C2: once lockManifest has run, and until a call started after it unlocks
\* the store, no key and no decrypted Collection is in module memory or in
\* sessionStorage
C2_LockedHoldsNothing ==
  \A i \in Inst :
    hist[i].locked =>
      /\ manifestCache[i] = Null
      /\ masterKeyCache[i] = NoKey
      /\ saltCache[i] = NoSalt
      /\ siblings[i] = NoSiblings
      /\ session[i].cache.val = Null

\* C3: on one tab no mutation applies its change while another mutation is
\* between its apply and the end of its upload
C3_MutationsSerialized ==
  \A i \in Inst, t \in Slots, u \in Slots :
    (/\ t # u
     /\ tasks[i][t].kind \in MutKinds
     /\ tasks[i][t].pc = "putManifest") =>
       ~(tasks[i][u].kind \in MutKinds /\ tasks[i][u].pc \in {"putManifest", "uploaded"})

\* the upload of a mutation that ran alone fails
UploadFails(i, t) ==
  /\ tasks[i][t].kind \in MutKinds
  /\ tasks[i][t].pc = "putManifest"
  /\ tasks'[i][t].pc = "rejected"

\* C4: when the upload of a mutation fails the call rejects and the step
\* changes neither memory, nor the remote, nor sessionStorage; if the mutation
\* ran alone, memory holds the Collection with the change applied and the
\* remote blob is the one of before the call
C4_UploadFailureKeepsChange ==
  [][\A i \in Inst, t \in Slots :
       UploadFails(i, t) =>
         /\ manifestCache' = manifestCache
         /\ store' = store
         /\ session' = session
         /\ tasks[i][t].solo =>
              /\ manifestCache'[i] = tasks[i][t].data
              /\ manifestCache'[i] # tasks[i][t].pre
              /\ store'.manifest = tasks[i][t].preRemote]_vars

C4_Witness ==
  /\ tasks[1][1].kind = "addFile" /\ tasks[1][1].pc = "rejected"
  /\ tasks[1][1].arg.fileId = "f1"
  /\ HasFile(Files(manifestCache[1]), "f1")
  /\ store.manifest # Null
  /\ ~HasFile(Files(Remote), "f1")

\* C5: when the upload of a mutation that ran alone is aborted, memory holds
\* the Collection of before the call
C5_AbortRestoresCollection ==
  [][\A i \in Inst, t \in Slots :
       (/\ tasks[i][t].kind \in MutKinds
        /\ tasks[i][t].pc = "putManifest"
        /\ tasks[i][t].solo
        /\ tasks'[i][t].pc = "aborted") =>
          manifestCache'[i] = tasks[i][t].pre]_vars

\* a mutation of the tab has its upload behind it
Uploaded(i) ==
  /\ tasks[i][1].kind \in MutKinds
  /\ tasks[i][1].pc \in {"uploaded", "resolved"}

\* C6: when both tabs have a mutation whose upload succeeded, the remote blob
\* is the in-memory Collection of the tab that uploaded last, encrypted under
\* its key: nothing of the other tab is merged in, and a mutation whose
\* upload succeeded resolves whatever the remote held
C6_LastWriterWins ==
  /\ [](\A w \in Inst :
          (lastPut = w /\ \A i \in Inst : Uploaded(i)) =>
             /\ store.manifest =
                  Some(encryptManifest(manifestCache[w][1], masterKeyCache[w]))
             /\ \A l \in Inst \ {w} :
                  (/\ tasks[l][1].kind = "addFile"
                   /\ ~HasFile(Files(manifestCache[w]), tasks[l][1].arg.fileId)) =>
                      ~HasFile(Files(Remote), tasks[l][1].arg.fileId))
  /\ [][\A i \in Inst :
          (tasks[i][1].kind \in MutKinds /\ tasks[i][1].pc = "uploaded"
             /\ OwnStep(i, 1)) =>
                tasks'[i][1].pc = "resolved"]_vars

\* tab 1 added f1, tab 2 added f2, tab 2 uploaded last: f1 is gone from the
\* remote and both calls resolved
C6_Witness ==
  /\ tasks[1][1].kind = "addFile" /\ tasks[1][1].pc = "resolved"
  /\ tasks[2][1].kind = "addFile" /\ tasks[2][1].pc = "resolved"
  /\ Files(manifestCache[1]) = <<FileInfo("f1", "a.txt")>>
  /\ Files(manifestCache[2]) = <<FileInfo("f2", "b.txt")>>
  /\ lastPut = 2
  /\ Files(Remote) = <<FileInfo("f2", "b.txt")>>

\* a local record the remote lacks
LocalOnly(local, remote) ==
  \E k \in 1..Len(local) : ~HasFile(remote, local[k].fileId)

\* C7: when a syncManifest that ran alone resolves with a Collection, memory
\* and sessionStorage hold exactly the Collection of the remote blob, the key
\* and the salt are the ones held before, and no password was passed
C7_SyncReplacesWholesale ==
  [][\A i \in Inst, t \in Slots :
       (/\ tasks[i][t].kind = "sync"
        /\ tasks[i][t].solo
        /\ tasks[i][t].pc = "decrypted"
        /\ tasks'[i][t].pc = "resolved") =>
          /\ manifestCache'[i] # Null
          /\ store.manifest =
               Some(encryptManifest(manifestCache'[i][1], masterKeyCache[i]))
          /\ ~LocalOnly(Files(manifestCache'[i]), Files(Remote))
          /\ session'[i].cache = [present |-> TRUE, val |-> manifestCache'[i]]
          /\ masterKeyCache' = masterKeyCache
          /\ saltCache' = saltCache
          /\ tasks[i][t].arg.password = "-"]_vars

\* a sync resolved and dropped the record that only memory had
C7_Witness ==
  /\ tasks[1][1].kind = "sync" /\ tasks[1][1].pc = "resolved"
  /\ tasks[1][1].pre # Null
  /\ LocalOnly(Files(tasks[1][1].pre), Files(Remote))
  /\ manifestCache[1] = Remote
  /\ session[1].cache.val = Remote
  /\ masterKeyCache[1] # NoKey

\* the caches unlockManifest writes
Caches(i) == <<manifestCache[i], masterKeyCache[i], saltCache[i], session[i]>>

\* C8: a step of unlockManifest changes the caches only when the salt was
\* downloaded, the key derived from it and the password, and the Collection
\* downloaded and decrypted under that key; a step that rejects changes none
C8_UnlockOnlyOnSuccess ==
  [][\A i \in Inst, t \in Slots :
       (tasks[i][t].kind = "unlock" /\ OwnStep(i, t)) =>
          /\ tasks'[i][t].pc = "rejected" => Caches(i)' = Caches(i)
          /\ Caches(i)' # Caches(i) =>
               /\ tasks[i][t].pc = "decrypted"
               /\ tasks[i][t].salt # NoSalt
               /\ tasks[i][t].key =
                    deriveMasterKey(tasks[i][t].arg.password, tasks[i][t].salt)
               /\ tasks[i][t].data # Null
               /\ masterKeyCache'[i] = tasks[i][t].key
               /\ manifestCache'[i] = tasks[i][t].data
               /\ saltCache'[i] = tasks[i][t].salt
          /\ (tasks[i][t].pc = "getSalt" /\ tasks'[i][t].pc = "getManifest") =>
               /\ store.salt # NoSalt
               /\ tasks'[i][t].salt = store.salt
          /\ (tasks[i][t].pc = "getManifest" /\ tasks'[i][t].pc = "decrypted") =>
               /\ store.manifest # Null
               /\ store.manifest[1].key = tasks[i][t].key
               /\ tasks'[i][t].data = Remote]_vars

\* an unlock with the wrong password was rejected at the decryption and the
\* store is as locked as before
C8_Witness ==
  /\ tasks[1][1].kind = "unlock" /\ tasks[1][1].pc = "rejected"
  /\ hist[1].clean /\ tasks[1][1].arg.password # hist[1].pw
  /\ store.salt # NoSalt /\ store.manifest # Null
  /\ Caches(1) = <<Null, NoKey, NoSalt, NoSession>>

\* C9: sessionStorage never receives a Collection that a mutation still has
\* to upload, and when a mutation that ran alone resolves, the remote blob
\* decrypts to the in-memory Collection and sessionStorage holds it as well
C9_SessionCacheAfterUpload ==
  [][\A i \in Inst, t \in Slots :
       (/\ tasks[i][t].kind \in MutKinds
        /\ tasks[i][t].pc = "uploaded"
        /\ OwnStep(i, t)) =>
          /\ \A u \in Slots \ {t} :
               (tasks[i][u].kind \in MutKinds /\ tasks[i][u].pc = "putManifest") =>
                  session'[i].cache.val # tasks[i][u].data
          /\ tasks[i][t].solo =>
               /\ store.manifest =
                    Some(encryptManifest(manifestCache'[i][1], masterKeyCache'[i]))
               /\ session'[i].cache = [present |-> TRUE, val |-> manifestCache'[i]]]_vars

\* C10: when an addFileToManifest that was rejected at its upload is called
\* again with the same record and resolves, memory and the remote hold the
\* record once
C10_RetryIdempotent ==
  \A i \in Inst, t \in Slots :
    (/\ tasks[i][t].kind = "addFile"
     /\ tasks[i][t].retry
     /\ tasks[i][t].pc = "resolved") =>
       /\ Count(Files(manifestCache[i]), tasks[i][t].arg.fileId, tasks[i][t].arg.fileName) = 1
       /\ Count(Files(Remote), tasks[i][t].arg.fileId, tasks[i][t].arg.fileName) = 1

(* ------------------------------------------------------------------ *)
(* Notes and calendar stores (notes.ts): the two are the same code,    *)
(* k is "notes" or "calendar"                                          *)
(* ------------------------------------------------------------------ *)

Kinds == {"notes", "calendar"}

Titles == {"t1", "t2"}

\* the timestamps of the notes and calendar manifests are left out
createEmptyNotesManifest == [version |-> 1, notes |-> <<>>]

createEmptyCalendarManifest == [version |-> 1, events |-> <<>>]

Empty(k) == IF k = "notes" THEN createEmptyNotesManifest ELSE createEmptyCalendarManifest

Entries(m, k) == IF k = "notes" THEN m.notes ELSE m.events

WithEntries(m, k, entries) ==
  IF k = "notes" THEN [m EXCEPT !.notes = entries] ELSE [m EXCEPT !.events = entries]

ManifestPath(k) == IF k = "notes" THEN NOTES_MANIFEST_KEY ELSE CALENDAR_MANIFEST_KEY

ContentPath(k, id) == IF k = "notes" THEN NotePath(id) ELSE EventPath(id)

\* notesManifestCache / calendarManifestCache
CacheOf(i, k) ==
  IF k = "notes" THEN siblings[i].notesManifest ELSE siblings[i].calendarManifest

\* notesMasterKeyCache / calendarMasterKeyCache
KeyOf(i, k) == IF k = "notes" THEN siblings[i].notesKey ELSE siblings[i].calendarKey

SetCache(sib, k, m) ==
  IF k = "notes" THEN [sib EXCEPT !.notesManifest = m] ELSE [sib EXCEPT !.calendarManifest = m]

SetKey(sib, k, key) ==
  IF k = "notes" THEN [sib EXCEPT !.notesKey = key] ELSE [sib EXCEPT !.calendarKey = key]

\* isNotesInitialized / isCalendarInitialized; the guard of every mutation
Initialized(i, k) == CacheOf(i, k) # Null /\ KeyOf(i, k) # NoKey

\* AES-GCM under the master key, as encryptManifest
encryptData(data, masterKey) == [key |-> masterKey, data |-> data]

decryptData(blob, masterKey) == blob.data

NoteMetadata(id, title) ==
  [id |-> id, title |-> title, isPinned |-> FALSE, tags |-> <<"g1">>,
   contentKey |-> NotePath(id)]

CalendarEventMetadata(id, title) ==
  [id |-> id, title |-> title, contentKey |-> EventPath(id)]

\* the full note / event that is encrypted into the content object
Content(k, id, title) == [kind |-> k, id |-> id, title |-> title, content |-> "c1"]

HasEntry(entries, id) == \E n \in 1..Len(entries) : entries[n].id = id

\* Array.prototype.findIndex, 1-based; 0 stands for -1
findIndex(entries, id) ==
  IF HasEntry(entries, id)
  THEN CHOOSE n \in 1..Len(entries) :
         entries[n].id = id /\ \A j \in 1..(n-1) : entries[j].id # id
  ELSE 0

\* Array.prototype.splice(index, 1)
splice(entries, index) ==
  [n \in 1..(Len(entries) - 1) |-> IF n < index THEN entries[n] ELSE entries[n + 1]]

NewCall(i, op, k, id) ==
  [NoCall EXCEPT !.op = op, !.kind = k, !.id = id,
                 !.locked = ~Initialized(i, k),
                 !.found = CacheOf(i, k) # Null /\ HasEntry(Entries(CacheOf(i, k)[1], k), id)]

\* saveNotesManifest / saveCalendarManifest called with the cache holding m:
\* JSON.stringify runs before the first await
Save(i, k, c, entries) ==
  LET m == WithEntries(CacheOf(i, k)[1], k, entries)
  IN /\ siblings' = [siblings EXCEPT ![i] = SetCache(@, k, Some(m))]
     /\ call' = [call EXCEPT ![i] = [c EXCEPT !.pc = "putManifest", !.data = Some(m),
                                              !.key = KeyOf(i, k)]]


\* initializeNotes / initializeCalendar, called by loadNotes / initCalendar
\* with getMasterKey() when the store is not initialized yet
Initialize(i, k) ==
  /\ CallCanStart(i)
  /\ masterKeyCache[i] # NoKey
  /\ ~Initialized(i, k)
  /\ siblings' = [siblings EXCEPT ![i] = SetKey(@, k, masterKeyCache[i])]
  /\ call' = [call EXCEPT ![i] = [NewCall(i, "initialize", k, "-") EXCEPT
                                    !.pc = "getManifest", !.key = masterKeyCache[i]]]
  /\ UNCHANGED <<store, manifestCache, masterKeyCache, saltCache, session, tasks, now,
                 lastPut, hist, objects, uuid, share, section, conv, mode, user, tokenManager>>

initializeNotes(i) == Initialize(i, "notes")

initializeCalendar(i) == Initialize(i, "calendar")

\* the manifest is downloaded and decrypted; when the object is missing or
\* does not decrypt, the catch block creates an empty manifest and saves it
Initialize_download(i) ==
  /\ call[i].op = "initialize"
  /\ call[i].pc = "getManifest"
  /\ LET k == call[i].kind
         got == objects[ManifestPath(k)]
     IN IF got # Null /\ CanDecrypt(got[1], call[i].key)
        THEN /\ siblings' = [siblings EXCEPT ![i] =
                               SetCache(@, k, Some(decryptData(got[1], call[i].key)))]
             /\ call' = [call EXCEPT ![i] = Outcome(@, "resolved")]
        ELSE LET sib == SetCache(siblings[i], k, Some(Empty(k)))
             IN /\ siblings' = [siblings EXCEPT ![i] = sib]
                /\ call' = [call EXCEPT ![i] = [@ EXCEPT !.pc = "putManifest",
                                                         !.data = Some(Empty(k))]]
  /\ UNCHANGED <<store, manifestCache, masterKeyCache, saltCache, session, tasks, now,
                 lastPut, hist, objects, uuid, share, section, conv, mode, user, tokenManager>>

\* the download fails in transit: the same catch block runs
Initialize_downloadFails(i) ==
  /\ call[i].op = "initialize"
  /\ call[i].pc = "getManifest"
  /\ LET k == call[i].kind
     IN /\ siblings' = [siblings EXCEPT ![i] = SetCache(@, k, Some(Empty(k)))]
        /\ call' = [call EXCEPT ![i] = [@ EXCEPT !.pc = "putManifest",
                                                 !.data = Some(Empty(k))]]
  /\ UNCHANGED <<store, manifestCache, masterKeyCache, saltCache, session, tasks, now,
                 lastPut, hist, objects, uuid, share, section, conv, mode, user, tokenManager>>

\* the guard of createNote, updateNote, deleteNote and of their calendar twins
NotInitialized(i, op, k, id) ==
  /\ ~Initialized(i, k)
  /\ call' = [call EXCEPT ![i] = Outcome(NewCall(i, op, k, id), "threw")]
  /\ UNCHANGED <<siblings, uuid>>

\* createNote / createEvent up to the upload of the content
Create(i, k, title) ==
  /\ CallCanStart(i)
  /\ \/ NotInitialized(i, "create", k, "-")
     \/ /\ Initialized(i, k)
        /\ Len(Entries(CacheOf(i, k)[1], k)) < MaxEntries
        /\ LET n == IF k = "notes" THEN uuid.notes ELSE uuid.events
               id == IF k = "notes" THEN NoteIds[n + 1] ELSE EventIds[n + 1]
           IN /\ n < MaxIds
              /\ uuid' = IF k = "notes" THEN [uuid EXCEPT !.notes = n + 1]
                                        ELSE [uuid EXCEPT !.events = n + 1]
              /\ call' = [call EXCEPT ![i] =
                            [NewCall(i, "create", k, id) EXCEPT
                               !.pc = "putContent", !.title = title,
                               !.key = KeyOf(i, k)]]
        /\ UNCHANGED siblings
  /\ UNCHANGED <<store, manifestCache, masterKeyCache, saltCache, session, tasks, now,
                 lastPut, hist, objects, share, section, conv, mode, user, tokenManager>>

createNote(i, title) == Create(i, "notes", title)

createEvent(i, title) == Create(i, "calendar", title)

\* updateNote(noteId, {title}): no content, so the metadata is updated and
\* saved at once
updateNote(i, noteId, title) ==
  /\ CallCanStart(i)
  /\ LET k == "notes"
         c == NewCall(i, "update", k, noteId)
     IN \/ NotInitialized(i, "update", k, noteId)
        \/ /\ Initialized(i, k)
           /\ LET entries == Entries(CacheOf(i, k)[1], k)
                  index == findIndex(entries, noteId)
              IN IF index = 0
                 THEN /\ call' = [call EXCEPT ![i] = Outcome(c, "resolvedNull")]
                      /\ UNCHANGED siblings
                 ELSE Save(i, k, [c EXCEPT !.index = index, !.title = title],
                           [entries EXCEPT ![index].title = title])
           /\ UNCHANGED uuid
  /\ UNCHANGED <<store, manifestCache, masterKeyCache, saltCache, session, tasks, now,
                 lastPut, hist, objects, share, section, conv, mode, user, tokenManager>>

\* updateEvent(eventId, {title}) up to getEvent's download
updateEvent(i, eventId, title) ==
  /\ CallCanStart(i)
  /\ LET k == "calendar"
         c == NewCall(i, "update", k, eventId)
     IN \/ NotInitialized(i, "update", k, eventId)
        \/ /\ Initialized(i, k)
           /\ LET index == findIndex(Entries(CacheOf(i, k)[1], k), eventId)
              IN call' = [call EXCEPT ![i] =
                            IF index = 0
                            THEN Outcome(c, "resolvedNull")
                            ELSE [c EXCEPT !.pc = "getContent", !.index = index,
                                           !.title = title, !.key = KeyOf(i, k)]]
           /\ UNCHANGED <<siblings, uuid>>
  /\ UNCHANGED <<store, manifestCache, masterKeyCache, saltCache, session, tasks, now,
                 lastPut, hist, objects, share, section, conv, mode, user, tokenManager>>

\* getEvent inside updateEvent: the event is downloaded and decrypted, or
\* getEvent returns null and so does updateEvent
updateEvent_getEvent(i, ok) ==
  /\ call[i].op = "update"
  /\ call[i].pc = "getContent"
  /\ LET got == objects[ContentPath(call[i].kind, call[i].id)]
     IN call' = [call EXCEPT ![i] =
                   IF ok /\ got # Null /\ CanDecrypt(got[1], call[i].key)
                   THEN [@ EXCEPT !.pc = "putContent"]
                   ELSE Outcome(@, "resolvedNull")]
  /\ UNCHANGED <<store, manifestCache, masterKeyCache, saltCache, siblings, session, tasks,
                 now, lastPut, hist, objects, uuid, share, section, conv, mode, user, tokenManager>>

\* deleteNote / deleteEvent up to deleteFromStorage
Delete(i, k, id) ==
  /\ CallCanStart(i)
  /\ LET c == NewCall(i, "delete", k, id)
     IN \/ NotInitialized(i, "delete", k, id)
        \/ /\ Initialized(i, k)
           /\ LET index == findIndex(Entries(CacheOf(i, k)[1], k), id)
              IN call' = [call EXCEPT ![i] =
                            IF index = 0
                            THEN Outcome(c, "resolvedNull")   \* return false
                            ELSE [c EXCEPT !.pc = "deleteBlob", !.index = index]]
           /\ UNCHANGED <<siblings, uuid>>
  /\ UNCHANGED <<store, manifestCache, masterKeyCache, saltCache, session, tasks, now,
                 lastPut, hist, objects, share, section, conv, mode, user, tokenManager>>

deleteNote(i, noteId) == Delete(i, "notes", noteId)

deleteEvent(i, eventId) == Delete(i, "calendar", eventId)

\* toggleNotePin: notesManifestCache?.notes.find(...), null when there is no
\* cache or no such note; otherwise updateNote(noteId, {isPinned})
toggleNotePin(i, noteId) ==
  /\ CallCanStart(i)
  /\ LET k == "notes"
         c == NewCall(i, "togglePin", k, noteId)
         cache == CacheOf(i, k)
     IN IF cache = Null \/ ~HasEntry(Entries(cache[1], k), noteId)
        THEN /\ call' = [call EXCEPT ![i] = Outcome(c, "resolvedNull")]
             /\ UNCHANGED siblings
        ELSE IF KeyOf(i, k) = NoKey
        THEN /\ call' = [call EXCEPT ![i] = Outcome(c, "threw")]
             /\ UNCHANGED siblings
        ELSE LET entries == Entries(cache[1], k)
                 index == findIndex(entries, noteId)
             IN Save(i, k, [c EXCEPT !.index = index],
                     [entries EXCEPT ![index].isPinned = ~@])
  /\ UNCHANGED <<store, manifestCache, masterKeyCache, saltCache, session, tasks, now,
                 lastPut, hist, objects, uuid, share, section, conv, mode, user, tokenManager>>


\* handleDelete (StorageSettings): deleteFromStorage(`files/${fileId}`) first
handleDelete(i, fileId) ==
  /\ CallCanStart(i)
  /\ call' = [call EXCEPT ![i] =
                [NoCall EXCEPT !.op = "handleDelete", !.kind = "files", !.id = fileId,
                               !.pc = "deleteBlob",
                               !.locked = ~Unlocked(i),
                               !.found = manifestCache[i] # Null
                                           /\ HasFile(manifestCache[i][1].files, fileId)]]
  /\ UNCHANGED <<store, manifestCache, masterKeyCache, saltCache, siblings, session, tasks,
                 now, lastPut, hist, objects, uuid, share, section, conv, mode, user, tokenManager>>

\* what follows `try { await deleteFromStorage(...) } catch { }`: handleDelete
\* calls removeFileFromManifest, deleteNote and deleteEvent splice the entry
\* out and save the manifest
AfterDelete(i) ==
  IF call[i].kind = "files"
  THEN /\ RemoveFile(i, 1, call[i].id)
       /\ call' = [call EXCEPT ![i] = Outcome(@, "delegated")]
  ELSE /\ Save(i, call[i].kind, call[i],
               splice(Entries(CacheOf(i, call[i].kind)[1], call[i].kind), call[i].index))
       /\ UNCHANGED <<store, manifestCache, masterKeyCache, saltCache, session, tasks,
                      now, lastPut, hist>>

\* DeleteObject answered: the content object is gone
deleteFromStorage_ok(i) ==
  /\ call[i].pc = "deleteBlob"
  /\ objects' = [objects EXCEPT ![IF call[i].kind = "files"
                                  THEN FilePath(call[i].id)
                                  ELSE ContentPath(call[i].kind, call[i].id)] = Null]
  /\ AfterDelete(i)
  /\ UNCHANGED <<uuid, share, section, conv, mode, user, tokenManager>>

\* mutant: the failed DeleteObject is not caught, the call rejects
deleteFromStorage_fail_rethrow(i) ==
  /\ call[i].pc = "deleteBlob"
  /\ call' = [call EXCEPT ![i] = Outcome(@, "rejected")]
  /\ UNCHANGED <<store, manifestCache, masterKeyCache, saltCache, siblings, session, tasks,
                 now, lastPut, hist, objects, uuid, share, section, conv, mode, user, tokenManager>>

\* DeleteObject failed: the error is caught and dropped
deleteFromStorage_fail(i) ==
  /\ call[i].pc = "deleteBlob"
  /\ AfterDelete(i)
  /\ UNCHANGED <<objects, uuid, share, section, conv, mode, user, tokenManager>>

\* PUT of the content object answered 2xx; createNote / createEvent push the
\* metadata, updateEvent writes the new title, and the manifest is saved
putContent_ok(i) ==
  /\ call[i].pc = "putContent"
  /\ call[i].op \in {"create", "update"}
  /\ LET k == call[i].kind
         id == call[i].id
         entries == Entries(CacheOf(i, k)[1], k)
     IN /\ objects' = [objects EXCEPT ![ContentPath(k, id)] =
                         Some(encryptData(Content(k, id, call[i].title), call[i].key))]
        /\ IF call[i].op = "create"
           THEN Save(i, k, call[i],
                     Append(entries, IF k = "notes"
                                     THEN NoteMetadata(id, call[i].title)
                                     ELSE CalendarEventMetadata(id, call[i].title)))
           ELSE Save(i, k, call[i], [entries EXCEPT ![call[i].index].title = call[i].title])
  /\ UNCHANGED <<store, manifestCache, masterKeyCache, saltCache, session, tasks, now,
                 lastPut, hist, uuid, share, section, conv, mode, user, tokenManager>>

\* PUT of .notes-manifest.enc / .calendar-manifest.enc answered 2xx
putManifest_ok(i) ==
  /\ call[i].pc = "putManifest"
  /\ call[i].kind \in Kinds
  /\ objects' = [objects EXCEPT ![ManifestPath(call[i].kind)] =
                   Some(encryptData(call[i].data[1], call[i].key))]
  /\ call' = [call EXCEPT ![i] = Outcome(@, "resolved")]
  /\ UNCHANGED <<store, manifestCache, masterKeyCache, saltCache, siblings, session, tasks,
                 now, lastPut, hist, uuid, share, section, conv, mode, user, tokenManager>>

\* an upload of the notes or calendar store fails: the call rejects
put_fail(i) ==
  /\ call[i].pc \in {"putContent", "putManifest"}
  /\ call[i].kind \in Kinds
  /\ call' = [call EXCEPT ![i] = Outcome(@, "rejected")]
  /\ UNCHANGED <<store, manifestCache, masterKeyCache, saltCache, siblings, session, tasks,
                 now, lastPut, hist, objects, uuid, share, section, conv, mode, user, tokenManager>>

\* lockManifest between two calls
lockManifest_idle(i) == CallCanStart(i) /\ lockManifest(i)


\* the first click after construction chooses the section
InitStores == \E sec \in Sections : InitOn(sec)

\* one tab whose caller awaits each call and which stays on its section: the
\* file list, the notes or the calendar; each section renders its own
\* handlers only, and lockManifest runs between calls; the uploads of the
\* file manifest succeed (their failure is what Spec explores)
NextStores ==
  \E i \in {1} :
    \/ lockManifest_idle(i)
    \/ CallCanStart(i) /\ initializeManifest(i, 1, "correctbatteryhorse", "s1")
    \/ uploadToStorage_salt(i, 1)
    \/ uploadToStorage_manifest(i, 1)
    \/ initializeManifest_finish(i, 1)
    \/ saveAfterUpload(i, 1)
    \/ section[i] = "all" /\ CallCanStart(i) /\ \E f \in FileInputs : addFileToManifest(i, 1, f)
    \/ section[i] = "all" /\ CallCanStart(i) /\ \E id \in FileIds : removeFileFromManifest(i, 1, id)
    \/ section[i] = "all" /\ CallCanStart(i) /\ \E id \in FileIds, n \in Names : renameFile(i, 1, id, n)
    \/ section[i] = "all" /\ \E id \in FileIds : handleDelete(i, id)
    \/ section[i] = "notes" /\ initializeNotes(i)
    \/ section[i] = "notes" /\ \E title \in Titles : createNote(i, title)
    \/ section[i] = "notes" /\ \E id \in Range(NoteIds), title \in Titles : updateNote(i, id, title)
    \/ section[i] = "notes" /\ \E id \in Range(NoteIds) : deleteNote(i, id)
    \/ section[i] = "notes" /\ \E id \in Range(NoteIds) : toggleNotePin(i, id)
    \/ section[i] = "calendar" /\ initializeCalendar(i)
    \/ section[i] = "calendar" /\ \E title \in Titles : createEvent(i, title)
    \/ section[i] = "calendar" /\ \E id \in Range(EventIds), title \in Titles : updateEvent(i, id, title)
    \/ section[i] = "calendar" /\ \E id \in Range(EventIds) : deleteEvent(i, id)
    \/ \E ok \in BOOLEAN : updateEvent_getEvent(i, ok)
    \/ Initialize_download(i)
    \/ Initialize_downloadFails(i)
    \/ deleteFromStorage_ok(i)
    \/ deleteFromStorage_fail(i)
    \/ putContent_ok(i)
    \/ putManifest_ok(i)
    \/ put_fail(i)

SpecStores == InitStores /\ [][NextStores]_vars

(* ------------------------------------------------------------------ *)
(* Properties of the three stores                                      *)
(* ------------------------------------------------------------------ *)

\* this step is the invocation of a notes or calendar operation by tab i
StartsCall(i) == CallCanStart(i) /\ call'[i] # call[i] /\ call'[i].kind \in Kinds

\* this step is the invocation of a file-store mutation by tab i
StartsMutation(i) ==
  ~Busy(i) /\ tasks'[i][1] # tasks[i][1] /\ tasks'[i][1].kind \in MutKinds

\* no upload, and the remote blobs, the caches and the session cache are as before
NothingChanged ==
  UNCHANGED <<store, objects, manifestCache, masterKeyCache, siblings, session>>

NoteMutations == {"create", "update", "delete", "togglePin"}

\* C11: a mutating operation of the file, notes or calendar store that is
\* invoked while its store is Locked throws (it does not return null or any
\* other value) and changes neither the remote blobs, nor the caches, nor the
\* session cache
C11_LockedMutationThrows ==
  [][\A i \in Inst :
       /\ (StartsCall(i) /\ call'[i].op \in NoteMutations /\ ~Initialized(i, call'[i].kind))
            => (call'[i].pc = "threw" /\ NothingChanged)
       /\ (StartsMutation(i) /\ ~Unlocked(i))
            => (tasks'[i][1].pc = "threw" /\ NothingChanged)]_vars

\* the mutations that name a record of the Collection
ByIdMutations == {"removeFile", "renameFile", "toggleFavorite"}

ByIdNoteMutations == {"update", "delete", "togglePin"}

\* C12: on an unlocked store, a mutation that names a record id which the
\* in-memory Collection does not hold throws (not found); it does not go on
\* to upload and resolve, and it does not return null or false
C12_AbsentIdThrows ==
  [][\A i \in Inst :
       /\ (/\ StartsMutation(i)
            /\ Unlocked(i)
            /\ tasks'[i][1].kind \in ByIdMutations
            /\ ~HasFile(Files(manifestCache[i]), tasks'[i][1].arg.fileId))
            => tasks'[i][1].pc = "threw"
       /\ (/\ StartsCall(i)
            /\ call'[i].op \in ByIdNoteMutations
            /\ ~call'[i].locked
            /\ ~call'[i].found)
            => call'[i].pc = "threw"]_vars

\* the blob delete of the pending call of tab i ends and leaves every object
\* in place: it failed, or there was no such object
DeleteFailed(i) ==
  call[i].pc = "deleteBlob" /\ call'[i] # call[i] /\ objects' = objects

\* C15: when a record that the Collection holds is deleted and the delete of
\* its blob fails, the record is nevertheless removed from the in-memory
\* Collection and the upload of the Collection without it is issued, for the
\* file list (handleDelete), deleteNote and deleteEvent alike
C15_DeleteSurvivesBlobFailure ==
  [][\A i \in Inst :
       (DeleteFailed(i) /\ call[i].found) =>
         LET id == call[i].id
             k == call[i].kind
         IN IF k = "files"
            THEN /\ ~HasFile(Files(manifestCache'[i]), id)
                 /\ tasks'[i][1].kind = "removeFile"
                 /\ tasks'[i][1].pc = "putManifest"
                 /\ ~HasFile(Files(tasks'[i][1].data), id)
            ELSE /\ ~HasEntry(Entries(CacheOf(i, k)'[1], k), id)
                 /\ call'[i].pc = "putManifest"
                 /\ ~HasEntry(Entries(call'[i].data[1], k), id)]_vars

\* deleteNote / deleteEvent has spliced the entry out and is saving the
\* manifest although the content object is still in the bucket
C15_Witness ==
  /\ call[1].op = "delete"
  /\ call[1].pc = "putManifest"
  /\ call[1].found
  /\ objects[ContentPath(call[1].kind, call[1].id)] # Null
  /\ ~HasEntry(Entries(CacheOf(1, call[1].kind)[1], call[1].kind), call[1].id)

(* ------------------------------------------------------------------ *)
(* Upload and copy of files (StorageSettings.handleUpload,             *)
(* manifest.ts copyFilesToFolder)                                      *)
(* ------------------------------------------------------------------ *)

\* a file name is the sequence of its characters; COPY stands for the
\* seven characters of " (copy)", none of which is a dot
COPY == " (copy)"

CopyNames == {<<"a", ".", "t">>, <<"r">>, <<"a", ".", "b", ".", "t">>}

\* folderId: "root" is undefined (the top level)
Folders == {"root", "d1"}

\* bytes are numbers 0..255, a text is the sequence of its characters' codes;
\* the alphabet of btoa: A-Z a-z 0-9 + /
B64Char(d) ==
  IF d < 26 THEN 65 + d
  ELSE IF d < 52 THEN 71 + d
  ELSE IF d < 62 THEN d - 4
  ELSE IF d = 62 THEN 43 ELSE 47

B64Value(c) == CHOOSE d \in 0..63 : B64Char(d) = c

RECURSIVE btoa(_)
\* btoa: three bytes give four characters, the tail is padded with "="
btoa(bytes) ==
  LET n == Len(bytes)
  IN IF n = 0 THEN <<>>
     ELSE IF n = 1 THEN <<B64Char(bytes[1] \div 4), B64Char((bytes[1] % 4) * 16), 61, 61>>
     ELSE IF n = 2 THEN <<B64Char(bytes[1] \div 4),
                          B64Char((bytes[1] % 4) * 16 + bytes[2] \div 16),
                          B64Char((bytes[2] % 16) * 4), 61>>
     ELSE <<B64Char(bytes[1] \div 4),
            B64Char((bytes[1] % 4) * 16 + bytes[2] \div 16),
            B64Char((bytes[2] % 16) * 4 + bytes[3] \div 64),
            B64Char(bytes[3] % 64)>>
            \o btoa(SubSeq(bytes, 4, n))

\* String.prototype.replace(/c/g, to) for one character; to is a text
RECURSIVE replace(_, _, _)
replace(text, c, to) ==
  IF text = <<>> THEN <<>>
  ELSE (IF text[1] = c THEN to ELSE <<text[1]>>) \o replace(Tail(text), c, to)

\* btoa(binary).replace(/\+/g, '-').replace(/\//g, '_').replace(/=/g, '')
bytesToBase64(bytes) ==
  replace(replace(replace(btoa(bytes), 43, <<45>>), 47, <<95>>), 61, <<>>)

\* the value of a hexadecimal digit, -1 for any other character
HexValue(c) ==
  IF c \in 48..57 THEN c - 48
  ELSE IF c \in 65..70 THEN c - 55
  ELSE IF c \in 97..102 THEN c - 87
  ELSE -1

HexChar(v) == IF v < 10 THEN 48 + v ELSE 55 + v

RECURSIVE encodeURIComponent(_)
\* encodeURIComponent of an ASCII text: A-Z a-z 0-9 - _ . ! ~ * ' ( ) stay,
\* every other character becomes %XX
encodeURIComponent(text) ==
  IF text = <<>> THEN <<>>
  ELSE (IF text[1] \in (65..90) \cup (97..122) \cup (48..57)
                        \cup {45, 95, 46, 33, 126, 42, 39, 40, 41}
        THEN <<text[1]>>
        ELSE <<37, HexChar(text[1] \div 16), HexChar(text[1] % 16)>>)
       \o encodeURIComponent(Tail(text))

RECURSIVE decodeURIComponentThrows(_)
\* URIError: a "%" that two hexadecimal digits do not follow, or an escape
\* that is no ASCII character (the texts here hold no longer UTF-8 sequences)
decodeURIComponentThrows(text) ==
  IF text = <<>> THEN FALSE
  ELSE IF text[1] # 37 THEN decodeURIComponentThrows(Tail(text))
  ELSE \/ Len(text) < 3
       \/ HexValue(text[2]) < 0
       \/ HexValue(text[3]) < 0
       \/ HexValue(text[2]) >= 8
       \/ decodeURIComponentThrows(SubSeq(text, 4, Len(text)))

RECURSIVE decodeURIComponent(_)
decodeURIComponent(text) ==
  IF text = <<>> THEN <<>>
  ELSE IF text[1] # 37 THEN <<text[1]>> \o decodeURIComponent(Tail(text))
  ELSE <<16 * HexValue(text[2]) + HexValue(text[3])>>
         \o decodeURIComponent(SubSeq(text, 4, Len(text)))

\* String.prototype.padEnd with a one-character filler
padEnd(text, targetLength, c) ==
  text \o [k \in 1..(targetLength - Len(text)) |-> c]

\* decodedBase64.replace(/-/g, '+').replace(/_/g, '/')
\*   .padEnd(Math.ceil(decodedBase64.length / 4) * 4, '=')
padded(base64) ==
  LET decodedBase64 == decodeURIComponent(base64)
  IN padEnd(replace(replace(decodedBase64, 45, <<43>>), 95, <<47>>),
            ((Len(decodedBase64) + 3) \div 4) * 4, 61)

\* InvalidCharacterError of atob: after one or two "=" are taken off the end
\* of a text of whole groups of four, the length is 1 modulo 4 or a character
\* is not of the alphabet
atobThrows(text) ==
  LET n == Len(text)
      cut == IF n % 4 = 0 /\ n > 0 /\ text[n] = 61
             THEN (IF text[n - 1] = 61 THEN 2 ELSE 1) ELSE 0
      s == SubSeq(text, 1, n - cut)
  IN \/ Len(s) % 4 = 1
     \/ \E k \in 1..Len(s) : \A d \in 0..63 : B64Char(d) # s[k]

RECURSIVE atob(_)
\* atob: every four characters give three bytes; a group ending in "==" gives
\* one byte, in "=" two, the bits left over being dropped
atob(text) ==
  LET n == Len(text)
  IN IF n < 4 THEN <<>>
     ELSE LET v == [k \in 1..4 |-> IF text[k] = 61 THEN 0 ELSE B64Value(text[k])]
              three == <<v[1] * 4 + v[2] \div 16,
                         (v[2] % 16) * 16 + v[3] \div 4,
                         (v[3] % 4) * 64 + v[4]>>
          IN (IF text[3] = 61 THEN SubSeq(three, 1, 1)
              ELSE IF text[4] = 61 THEN SubSeq(three, 1, 2)
              ELSE three) \o atob(SubSeq(text, 5, n))

\* base64ToBytes throws on the empty text, on a text decodeURIComponent
\* refuses and on a text atob refuses
base64ToBytesThrows(base64) ==
  \/ Len(base64) = 0
  \/ decodeURIComponentThrows(base64)
  \/ atobThrows(padded(base64))

\* mutant: the text is not padded, the characters after the last whole
\* group of four are lost
atob_wholeGroups(base64) ==
  atob(SubSeq(padded(base64), 1, 4 * (Len(decodeURIComponent(base64)) \div 4)))

base64ToBytes(base64) == atob(padded(base64))

\* which draw of crypto.randomUUID() gave the id
Draw(id) == CHOOSE n \in 1..Len(Uuids) : Uuids[n] = id

\* generateEncryptionKeyAndNonce: 32 and 12 random bytes, here 2 and 3 (the
\* same lengths modulo 3), different for every file
KeyBytes(id) == <<Draw(id), 255 - Draw(id)>>

NonceBytes(id) == <<Draw(id), 128 + Draw(id), 77>>

serializeEncryptionKey(id) ==
  [keyBase64 |-> bytesToBase64(KeyBytes(id)), nonceBase64 |-> bytesToBase64(NonceBytes(id))]

\* file.type || "application/octet-stream": the browser knows the type of
\* a name ending in ".t" and of no other
MimeOf(name) ==
  IF Len(name) >= 2 /\ name[Len(name) - 1] = "." /\ name[Len(name)] = "t"
  THEN "text/plain" ELSE "application/octet-stream"

\* encryptFile(file, key, nonce): the ciphertext of the file's bytes
encryptFile(content, k) == [key |-> k.keyBase64, nonce |-> k.nonceBase64, data |-> content]

\* the record handleUpload hands to addFileToManifest (sizes and uploadedAt
\* left out)
EncryptedFileInfo(id, name, folder) ==
  [fileId |-> id, fileName |-> name, isFavorite |-> "undefined", folderId |-> folder,
   mimeType |-> MimeOf(name),
   keyBase64 |-> serializeEncryptionKey(id).keyBase64,
   nonceBase64 |-> serializeEncryptionKey(id).nonceBase64]

\* fileName.lastIndexOf('.'); 0 stands for -1
lastIndexOf(fileName, ch) ==
  LET at == {n \in 1..Len(fileName) : fileName[n] = ch}
  IN IF at = {} THEN 0 ELSE CHOOSE n \in at : \A k \in at : k <= n

\* mutant: the name is copied as it is
addCopySuffix_asIs(fileName) == fileName

addCopySuffix(fileName) ==
  LET lastDot == lastIndexOf(fileName, ".")
  IN IF lastDot = 0
     THEN fileName \o <<COPY>>
     ELSE SubSeq(fileName, 1, lastDot - 1) \o <<COPY>>
            \o SubSeq(fileName, lastDot, Len(fileName))

\* handleUpload for one selected file, up to the upload of its ciphertext
handleUpload(i, name, folder) ==
  /\ CallCanStart(i)
  /\ uuid.files < MaxUuids
  /\ LET fileId == Uuids[uuid.files + 1]
     IN /\ uuid' = [uuid EXCEPT !.files = @ + 1]
        /\ call' = [call EXCEPT ![i] =
                      [NoCall EXCEPT !.op = "handleUpload", !.kind = "files",
                                     !.pc = "putBlob", !.id = fileId,
                                     !.data = Some(EncryptedFileInfo(fileId, name, folder)),
                                     !.blob = Some(encryptFile(fileId, serializeEncryptionKey(fileId))),
                                     !.locked = ~Unlocked(i)]]
  /\ UNCHANGED <<store, manifestCache, masterKeyCache, saltCache, siblings, session, tasks,
                 now, lastPut, hist, objects, share, section, conv, mode, user, tokenManager>>

\* PUT files/<fileId> answered 2xx: handleUpload calls addFileToManifest
handleUpload_put(i) ==
  /\ call[i].op = "handleUpload"
  /\ call[i].pc = "putBlob"
  /\ objects' = [objects EXCEPT ![FilePath(call[i].id)] = call[i].blob]
  /\ AddFile(i, 1, call[i].data[1])
  /\ call' = [call EXCEPT ![i] = Outcome(@, "delegated")]
  /\ UNCHANGED <<uuid, share, section, conv, mode, user, tokenManager>>

RECURSIVE Skip(_, _)
\* `if (!originalFile) continue`: the ids left from the first one that
\* names a record
Skip(fileIds, files) ==
  IF fileIds = <<>> THEN <<>>
  ELSE IF HasFile(files, Head(fileIds)) THEN fileIds
  ELSE Skip(Tail(fileIds), files)

\* copyFilesToFolder from the top of its for loop to its next await, with c
\* the call's locals and m the Collection in manifestCache: the next file
\* that is found is downloaded; after the last one the Collection is
\* encrypted and uploaded if a copy was made
CopyLoop(i, c, m) ==
  LET left == Skip(c.ids, m.files)
  IN IF left # <<>>
     THEN /\ call' = [call EXCEPT ![i] =
                        [c EXCEPT !.pc = "download", !.id = Head(left), !.ids = Tail(left),
                                  !.data = Some(m.files[FindIndex(m.files, Head(left))])]]
          /\ manifestCache' = [manifestCache EXCEPT ![i] = Some(m)]
          /\ UNCHANGED now
     ELSE IF c.made # <<>>
     THEN /\ now < MaxClock
          /\ LET saved == [m EXCEPT !.updatedAt = now]
             IN /\ manifestCache' = [manifestCache EXCEPT ![i] = Some(saved)]
                /\ call' = [call EXCEPT ![i] =
                              [c EXCEPT !.pc = "putManifest", !.ids = <<>>,
                                        !.data = Some(saved), !.key = masterKeyCache[i]]]
          /\ now' = now + 1
     ELSE /\ call' = [call EXCEPT ![i] = Outcome(c, "resolved")]
          /\ manifestCache' = [manifestCache EXCEPT ![i] = Some(m)]
          /\ UNCHANGED now

copyFilesToFolder(i, fileIds, targetFolderId) ==
  /\ CallCanStart(i)
  /\ LET c == [NoCall EXCEPT !.op = "copy", !.kind = "files", !.ids = fileIds,
                             !.target = targetFolderId, !.locked = ~Unlocked(i)]
     IN IF ~Unlocked(i)
        THEN /\ call' = [call EXCEPT ![i] = Outcome(c, "threw")]
             /\ UNCHANGED <<manifestCache, now>>
        ELSE CopyLoop(i, c, manifestCache[i][1])
  /\ hist' = [hist EXCEPT ![i] = Unclean(@)]
  /\ UNCHANGED <<store, masterKeyCache, saltCache, siblings, session, tasks, lastPut,
                 objects, uuid, share, section, conv, mode, user, tokenManager>>

\* downloadFromStorage(`files/${fileId}`) resolved; crypto.randomUUID() is
\* drawn and the upload to `files/${newFileId}` starts
copy_download(i) ==
  /\ call[i].op = "copy"
  /\ call[i].pc = "download"
  /\ objects[FilePath(call[i].id)] # Null
  /\ uuid.files < MaxUuids
  /\ uuid' = [uuid EXCEPT !.files = @ + 1]
  /\ call' = [call EXCEPT ![i] = [@ EXCEPT !.pc = "putBlob",
                                           !.newId = Uuids[uuid.files + 1],
                                           !.blob = objects[FilePath(call[i].id)]]]
  /\ UNCHANGED <<store, manifestCache, masterKeyCache, saltCache, siblings, session, tasks,
                 now, lastPut, hist, objects, share, section, conv, mode, user, tokenManager>>

\* the record copyFilesToFolder builds from the original
newFile(originalFile, newFileId, targetFolderId) ==
  [originalFile EXCEPT
     !.fileId = newFileId,
     !.folderId = targetFolderId,
     !.fileName = IF targetFolderId = originalFile.folderId
                  THEN addCopySuffix(originalFile.fileName)
                  ELSE originalFile.fileName]

\* PUT files/<newFileId> answered 2xx: the new record is pushed into
\* manifestCache.files and the loop goes on
copy_putBlob(i) ==
  /\ call[i].op = "copy"
  /\ call[i].pc = "putBlob"
  /\ manifestCache[i] # Null
  /\ objects' = [objects EXCEPT ![FilePath(call[i].newId)] = call[i].blob]
  /\ LET pushed == newFile(call[i].data[1], call[i].newId, call[i].target)
         m == [manifestCache[i][1] EXCEPT !.files = Append(@, pushed)]
     IN CopyLoop(i, [call[i] EXCEPT !.made = Append(@, call[i].newId)], m)
  /\ UNCHANGED <<store, masterKeyCache, saltCache, siblings, session, tasks, lastPut, hist,
                 uuid, share, section, conv, mode, user, tokenManager>>

\* PUT .manifest.enc answered 2xx; saveToSessionCache(manifestCache)
copy_putManifest(i) ==
  /\ call[i].op = "copy"
  /\ call[i].pc = "putManifest"
  /\ store' = [store EXCEPT !.manifest = Some(encryptManifest(call[i].data[1], call[i].key))]
  /\ lastPut' = i
  /\ session' = [session EXCEPT ![i] = saveToSessionCache(@, manifestCache[i])]
  /\ call' = [call EXCEPT ![i] = Outcome(@, "resolved")]
  /\ UNCHANGED <<manifestCache, masterKeyCache, saltCache, siblings, tasks, now, hist,
                 objects, uuid, share, section, conv, mode, user, tokenManager>>

\* a download or an upload of handleUpload or copyFilesToFolder fails: the
\* call rejects where it is; nothing is caught, nothing is undone
blob_fail(i) ==
  /\ call[i].op \in {"handleUpload", "copy"}
  /\ call[i].pc \in {"download", "putBlob", "putManifest"}
  /\ call' = [call EXCEPT ![i] = Outcome(@, "rejected")]
  /\ UNCHANGED <<store, manifestCache, masterKeyCache, saltCache, siblings, session, tasks,
                 now, lastPut, hist, objects, uuid, share, section, conv, mode, user, tokenManager>>

\* the clipboard: the ids of the selected files, each once
Clipboards ==
  LET ids == {Uuids[n] : n \in 1..MaxUuids}
  IN {<<a>> : a \in ids} \cup {pair \in ids \X ids : pair[1] # pair[2]}

\* one tab on the file list over a store it has initialized: files are
\* uploaded and copied, one call after the other
NextCopy ==
  \E i \in {1} :
    \/ CallCanStart(i) /\ initializeManifest(i, 1, "correctbatteryhorse", "s1")
    \/ uploadToStorage_salt(i, 1)
    \/ uploadToStorage_manifest(i, 1)
    \/ initializeManifest_finish(i, 1)
    \/ saveAfterUpload(i, 1)
    \/ \E name \in CopyNames, folder \in Folders : handleUpload(i, name, folder)
    \/ handleUpload_put(i)
    \/ \E fileIds \in Clipboards, folder \in Folders : copyFilesToFolder(i, fileIds, folder)
    \/ copy_download(i)
    \/ copy_putBlob(i)
    \/ copy_putManifest(i)
    \/ blob_fail(i)

SpecCopy == Init /\ [][NextCopy]_vars

(* ------------------------------------------------------------------ *)
(* Properties of copyFilesToFolder                                     *)
(* ------------------------------------------------------------------ *)

\* copyFilesToFolder of tab i rejects in this step because the download or
\* the upload of a file's blob failed
CopyRejectsAtBlob(i) ==
  /\ call[i].op = "copy"
  /\ call[i].pc \in {"download", "putBlob"}
  /\ call'[i].pc = "rejected"

\* C13: when copyFilesToFolder rejects because a blob download or upload
\* failed for some file of the list, the in-memory Collection holds no record
\* that this call appended
C13_CopyNotPartial ==
  [][\A i \in Inst :
       CopyRejectsAtBlob(i) =>
         \A id \in Range(call[i].made) : ~HasFile(Files(manifestCache'[i]), id)]_vars

\* copyFilesToFolder of tab i pushes a record in this step
CopyPushes(i) ==
  /\ call[i].op = "copy"
  /\ call[i].pc = "putBlob"
  /\ Len(call'[i].made) = Len(call[i].made) + 1

\* name is original with " (copy)" put in once, and nothing else changed
CarriesCopySuffix(name, original) ==
  /\ Len(name) = Len(original) + 1
  /\ \E n \in 1..Len(name) :
       /\ name[n] = COPY
       /\ [k \in 1..Len(original) |-> IF k < n THEN name[k] ELSE name[k + 1]] = original

\* C14: for each file it copies, copyFilesToFolder appends one record whose
\* fileId no record and no object had before, whose keyBase64 and nonceBase64
\* are the source record's, whose blob at files/<newId> is the source blob
\* byte for byte, and whose name carries the copy suffix when the target
\* folder is the source's folder and is the source's name otherwise; the
\* records that were there, the source among them, and the source blob are
\* as before
C14_CopyDuplicatesPointer ==
  [][\A i \in Inst :
       CopyPushes(i) =>
         LET old == Files(manifestCache[i])
             new == Files(manifestCache'[i])
             src == old[FindIndex(old, call[i].id)]
             rec == new[Len(new)]
         IN /\ Len(new) = Len(old) + 1
            /\ SubSeq(new, 1, Len(old)) = old
            /\ ~HasFile(old, rec.fileId)
            /\ objects[FilePath(rec.fileId)] = Null
            /\ rec.keyBase64 = src.keyBase64
            /\ rec.nonceBase64 = src.nonceBase64
            /\ objects'[FilePath(rec.fileId)] # Null
            /\ objects'[FilePath(rec.fileId)] = objects[FilePath(src.fileId)]
            /\ objects'[FilePath(src.fileId)] = objects[FilePath(src.fileId)]
            /\ rec.folderId = call[i].target
            /\ IF call[i].target = src.folderId
               THEN CarriesCopySuffix(rec.fileName, src.fileName)
               ELSE rec.fileName = src.fileName]_vars

\* a copy into the source's own folder has pushed its record: the name of a
\* file with an extension now carries the suffix
C14_Witness ==
  /\ call[1].op = "copy"
  /\ call[1].made # <<>>
  /\ manifestCache[1] # Null
  /\ LET files == Files(manifestCache[1])
         rec == files[Len(files)]
     IN /\ rec.fileId = call[1].made[Len(call[1].made)]
        /\ COPY \in Range(rec.fileName)
        /\ lastIndexOf(rec.fileName, ".") # 0
        /\ objects[FilePath(rec.fileId)] # Null

(* ------------------------------------------------------------------ *)
(* Sharing: generateShare (StorageSettings), createNoteShare and       *)
(* decryptSharedNote (notes.ts), handleAccess (share/page.tsx)         *)
(* ------------------------------------------------------------------ *)

\* generateSharePassword() / generateNoteSharePassword()
generateSharePassword == "gen"

\* what the owner types into the dialog: nothing, or a password of their own
CustomPasswords == {"", "pw1"}

\* what a visitor types
TypedPasswords == {"", "pw1", "gen", "bad"}

\* crypto.getRandomValues(new Uint8Array(16)): fresh, so not the master salt.
\* A salt and a ciphertext travel in the link as bytesToBase64 of their
\* bytes and come back through base64ToBytes, which returns the bytes that
\* were encoded; the model carries them as they are
ShareSalts == {"x1"}

\* PBKDF2(password, salt) for a share
deriveShareKey(password, salt) == <<password, salt>>

\* AES-GCM under a fresh iv: opens only under the same key
encryptBytes(data, key) == [key |-> key, data |-> data]

decryptBytes(encryptedData, key) == encryptedData.data

encryptJson(obj, key) == [key |-> key, data |-> obj]

decryptJson(encryptedData, key) == encryptedData.data

\* getDownloadPresignedUrl(config, `files/${fileId}`, 7 days): the right to
\* GET that one object
presignedUrl(fileId) == [get |-> FilePath(fileId)]

\* mutant: the whole record travels in the bundle
innerBundle_wholeRecord(fileInfo, shareKey) ==
  [v |-> 1,
   fileName |-> fileInfo.fileName,
   mimeType |-> fileInfo.mimeType,
   presignedUrl |-> presignedUrl(fileInfo.fileId),
   encFileKeyBase64 |-> encryptBytes(base64ToBytes(fileInfo.keyBase64), shareKey),
   encFileNonceBase64 |-> encryptBytes(base64ToBytes(fileInfo.nonceBase64), shareKey),
   fileInfo |-> fileInfo]

\* const innerBundle = {...} of generateShare
innerBundle(fileInfo, shareKey) ==
  [v |-> 1,
   fileName |-> fileInfo.fileName,
   mimeType |-> fileInfo.mimeType,
   presignedUrl |-> presignedUrl(fileInfo.fileId),
   encFileKeyBase64 |-> encryptBytes(base64ToBytes(fileInfo.keyBase64), shareKey),
   encFileNonceBase64 |-> encryptBytes(base64ToBytes(fileInfo.nonceBase64), shareKey)]

\* const noteBundle = {...} of createNoteShare
noteBundle(note) == [v |-> 1, title |-> note.title, content |-> note.content, tags |-> note.tags]

\* `${saltB64}.${encB64}` behind /share?s= or /share?note=
Link(param, salt, enc) == [param |-> param, salt |-> salt, enc |-> enc]

\* mutant: any version is taken
Supported_any(v) == TRUE

\* the version check of handleAccess and decryptSharedNote
Supported(v) == v = 1

\* links made by a release that writes bundles of version 2, with the
\* password "pw1": the fields of version 1 are all there
ForeignLinks ==
  LET key == deriveShareKey("pw1", "x9")
  IN {Link("s", "x9",
           encryptJson([v |-> 2, fileName |-> <<"z">>, mimeType |-> "text/plain",
                        presignedUrl |-> presignedUrl("f1"),
                        encFileKeyBase64 |-> encryptBytes(<<9, 9>>, key),
                        encFileNonceBase64 |-> encryptBytes(<<8, 8, 8>>, key)], key)),
      Link("note", "x9",
           encryptJson([v |-> 2, title |-> "t9", content |-> "c9", tags |-> <<>>], key))}

\* const pw = sharePassword || shareGeneratedPassword
EffectivePassword(custom) == IF custom # "" THEN custom ELSE generateSharePassword

\* generateShare up to `await getDownloadPresignedUrl`; with no such record
\* (or the store locked) fileInfo is null and the TypeError is caught
generateShare(i, shareFileId, custom) ==
  /\ CallCanStart(i)
  /\ LET c == [NoCall EXCEPT !.op = "generateShare", !.kind = "files", !.id = shareFileId,
                             !.pw = EffectivePassword(custom), !.locked = ~Unlocked(i)]
     IN IF Unlocked(i) /\ HasFile(Files(manifestCache[i]), shareFileId)
        THEN LET files == Files(manifestCache[i])
                 fileInfo == files[FindIndex(files, shareFileId)]
             IN IF base64ToBytesThrows(fileInfo.keyBase64)
                     \/ base64ToBytesThrows(fileInfo.nonceBase64)
                THEN call' = [call EXCEPT ![i] = Outcome(c, "rejected")]
                ELSE call' = [call EXCEPT ![i] =
                                [c EXCEPT !.pc = "presign", !.data = Some(fileInfo),
                                          !.found = TRUE]]
        ELSE call' = [call EXCEPT ![i] = Outcome(c, "rejected")]
  /\ UNCHANGED <<store, manifestCache, masterKeyCache, saltCache, siblings, session, tasks,
                 now, lastPut, hist, objects, uuid, share, section, conv, mode, user, tokenManager>>

\* the rest of generateShare: salt, share key, bundle, link
generateShare_finish(i, salt) ==
  /\ call[i].op = "generateShare"
  /\ call[i].pc = "presign"
  /\ LET fileInfo == call[i].data[1]
         shareKey == deriveShareKey(call[i].pw, salt)
         link == Link("s", salt, encryptJson(innerBundle(fileInfo, shareKey), shareKey))
     IN share' = [share EXCEPT
                    !.token = Some(link),
                    !.made = Some([id |-> fileInfo.fileId, pw |-> call[i].pw,
                                   record |-> fileInfo])]
  /\ call' = [call EXCEPT ![i] = Outcome(@, "resolved")]
  /\ UNCHANGED <<store, manifestCache, masterKeyCache, saltCache, siblings, session, tasks,
                 now, lastPut, hist, objects, uuid, section, conv, mode, user, tokenManager>>

\* createNoteShare up to the download inside getNote
createNoteShare(i, noteId, custom) ==
  /\ CallCanStart(i)
  /\ LET k == "notes"
         c == [NewCall(i, "createNoteShare", k, noteId) EXCEPT
                 !.pw = EffectivePassword(custom)]
     IN IF ~Initialized(i, k)
        THEN call' = [call EXCEPT ![i] = Outcome(c, "threw")]
        ELSE LET entries == Entries(CacheOf(i, k)[1], k)
                 index == findIndex(entries, noteId)
             IN IF index = 0
                THEN call' = [call EXCEPT ![i] = Outcome(c, "threw")]   \* "Note not found"
                ELSE call' = [call EXCEPT ![i] =
                                [c EXCEPT !.pc = "getNote", !.index = index,
                                          !.data = Some(entries[index]),
                                          !.key = KeyOf(i, k)]]
  /\ UNCHANGED <<store, manifestCache, masterKeyCache, saltCache, siblings, session, tasks,
                 now, lastPut, hist, objects, uuid, share, section, conv, mode, user, tokenManager>>

\* getNote's download answered; the note is put together from the metadata
\* and the decrypted content, and the link is made
createNoteShare_finish(i, salt) ==
  /\ call[i].op = "createNoteShare"
  /\ call[i].pc = "getNote"
  /\ LET metadata == call[i].data[1]
         got == objects[metadata.contentKey]
     IN IF got = Null \/ ~CanDecrypt(got[1], call[i].key)
        THEN /\ call' = [call EXCEPT ![i] = Outcome(@, "threw")]   \* getNote returned null
             /\ UNCHANGED share
        ELSE LET note == [id |-> metadata.id, title |-> metadata.title,
                          content |-> decryptData(got[1], call[i].key).content,
                          tags |-> metadata.tags]
                 key == deriveShareKey(call[i].pw, salt)
                 link == Link("note", salt, encryptJson(noteBundle(note), key))
             IN /\ share' = [share EXCEPT
                               !.token = Some(link),
                               !.made = Some([id |-> note.id, pw |-> call[i].pw,
                                              record |-> note])]
                /\ call' = [call EXCEPT ![i] = Outcome(@, "resolved")]
  /\ UNCHANGED <<store, manifestCache, masterKeyCache, saltCache, siblings, session, tasks,
                 now, lastPut, hist, objects, uuid, section, conv, mode, user, tokenManager>>

\* the presigned-URL request or the download of the note fails
share_fail(i) ==
  /\ call[i].op \in {"generateShare", "createNoteShare"}
  /\ call[i].pc \in {"presign", "getNote"}
  /\ call' = [call EXCEPT ![i] = Outcome(@, IF call[i].pc = "getNote" THEN "threw" ELSE "rejected")]
  /\ UNCHANGED <<store, manifestCache, masterKeyCache, saltCache, siblings, session, tasks,
                 now, lastPut, hist, objects, uuid, share, section, conv, mode, user, tokenManager>>

\* decryptSharedNote(bundle, password): every failure inside its try block
\* ends in `return null`
decryptSharedNote(bundle, password) ==
  LET key == deriveShareKey(password, bundle.salt)
  IN IF ~CanDecrypt(bundle.enc, key) THEN Null
     ELSE LET noteData == decryptJson(bundle.enc, key)
          IN IF ~Supported(noteData.v) THEN Null
             ELSE Some([title |-> noteData.title, content |-> noteData.content,
                        tags |-> noteData.tags])

\* the visitor opens a link: the one the owner's dialog shows, or a foreign one
openLink(link) ==
  /\ link \in ForeignLinks \cup (IF share.token = Null THEN {} ELSE {share.token[1]})
  /\ share' = [share EXCEPT !.page = [NoPage EXCEPT !.link = Some(link)]]
  /\ UNCHANGED <<store, manifestCache, masterKeyCache, saltCache, siblings, session, tasks,
                 now, lastPut, hist, objects, call, uuid, section, conv, mode, user, tokenManager>>

\* the message of the DOMException crypto.subtle.decrypt rejects with when
\* AES-GCM authentication fails (the text is the browser's)
OperationError == "OperationError"

\* the file branch of handleAccess, from the split of the link to setFileData
FileAccess(page, link, password) ==
  LET shareKey == deriveShareKey(password, link.salt)
      \* catch: err.message when err is an Error, which a DOMException is
      failed(message) == [page EXCEPT !.step = "error", !.result = "threw",
                                      !.error = message]
  IN IF ~CanDecrypt(link.enc, shareKey) THEN failed(OperationError)
     ELSE LET bundle == decryptJson(link.enc, shareKey)
          IN IF ~Supported(bundle.v) THEN failed("Unsupported share version")
             ELSE IF ~CanDecrypt(bundle.encFileKeyBase64, shareKey)
                       \/ ~CanDecrypt(bundle.encFileNonceBase64, shareKey)
             THEN failed(OperationError)
             ELSE [page EXCEPT
                     !.step = "preview", !.result = "value", !.fetched = TRUE,
                     !.fileData =
                        Some([name |-> bundle.fileName,
                              type |-> bundle.mimeType,
                              presignedUrl |-> bundle.presignedUrl,
                              fileKeyBase64 |->
                                bytesToBase64(decryptBytes(bundle.encFileKeyBase64, shareKey)),
                              fileNonceBase64 |->
                                bytesToBase64(decryptBytes(bundle.encFileNonceBase64, shareKey))])]

\* the note branch of handleAccess
NoteAccess(page, link, password) ==
  LET result == decryptSharedNote(link, password)
  IN IF result = Null
     THEN [page EXCEPT !.step = "error", !.result = "null",
                       !.error = "Invalid password or corrupted note"]
     ELSE [page EXCEPT !.step = "preview", !.result = "value", !.noteData = result]

\* handleAccess of the share page with the password typed
handleAccess(password) ==
  /\ share.page.link # Null
  /\ LET link == share.page.link[1]
         page == [NoPage EXCEPT !.link = share.page.link, !.password = password]
     IN share' = [share EXCEPT !.page =
                    IF password = "" THEN [page EXCEPT !.step = "error", !.error = "Enter password"]
                    ELSE IF link.param = "note" THEN NoteAccess(page, link, password)
                    ELSE FileAccess(page, link, password)]
  /\ UNCHANGED <<store, manifestCache, masterKeyCache, saltCache, siblings, session, tasks,
                 now, lastPut, hist, objects, call, uuid, section, conv, mode, user, tokenManager>>

\* the owner shares from the file list or from the notes
InitShare == \E sec \in {"all", "notes"} : InitOn(sec)

\* one tab of the owner, call after call, that uploads files or writes notes
\* and shares them, and the share page of a visitor
NextShare ==
  \/ \E i \in {1} :
       \/ CallCanStart(i) /\ initializeManifest(i, 1, "correctbatteryhorse", "s1")
       \/ uploadToStorage_salt(i, 1)
       \/ uploadToStorage_manifest(i, 1)
       \/ initializeManifest_finish(i, 1)
       \/ saveAfterUpload(i, 1)
       \/ section[i] = "all" /\ \E name \in CopyNames : handleUpload(i, name, "root")
       \/ handleUpload_put(i)
       \/ section[i] = "all" /\ \E id \in Range(Uuids), pw \in CustomPasswords : generateShare(i, id, pw)
       \/ \E salt \in ShareSalts : generateShare_finish(i, salt)
       \/ section[i] = "notes" /\ initializeNotes(i)
       \/ Initialize_download(i)
       \/ section[i] = "notes" /\ \E title \in Titles : createNote(i, title)
       \/ putContent_ok(i)
       \/ putManifest_ok(i)
       \/ section[i] = "notes" /\ \E id \in Range(NoteIds), pw \in CustomPasswords : createNoteShare(i, id, pw)
       \/ \E salt \in ShareSalts : createNoteShare_finish(i, salt)
       \/ share_fail(i)
  \/ \E link \in ForeignLinks \cup (IF share.token = Null THEN {} ELSE {share.token[1]}) :
       openLink(link)
  \/ \E password \in TypedPasswords : handleAccess(password)

SpecShare == InitShare /\ [][NextShare]_vars

(* ------------------------------------------------------------------ *)
(* Properties of sharing                                               *)
(* ------------------------------------------------------------------ *)

\* the visitor's page has resolved, with the password it holds, the link the
\* owner's dialog shows
ResolvedOwnLink ==
  /\ share.made # Null
  /\ share.page.link = share.token
  /\ share.page.result # "none"

\* C16: resolving a link with the password it was made with shows the
\* preview, and what the page then holds is the record's: for a file its
\* fileName, its mimeType and a key and nonce equal to its keyBase64 and
\* nonceBase64, for a note its title, content and tags
C16_ShareRoundTrip ==
  (ResolvedOwnLink /\ share.page.password = share.made[1].pw) =>
    LET record == share.made[1].record
        page == share.page
    IN /\ page.step = "preview"
       /\ IF page.link[1].param = "s"
          THEN /\ page.fileData # Null
               /\ page.fileData[1].name = record.fileName
               /\ page.fileData[1].type = record.mimeType
               /\ page.fileData[1].fileKeyBase64 = record.keyBase64
               /\ page.fileData[1].fileNonceBase64 = record.nonceBase64
          ELSE /\ page.noteData # Null
               /\ page.noteData[1].title = record.title
               /\ page.noteData[1].content = record.content
               /\ page.noteData[1].tags = record.tags

\* a file link was resolved with its password and the page shows the preview
C16_Witness ==
  /\ ResolvedOwnLink
  /\ share.page.password = share.made[1].pw
  /\ share.page.link[1].param = "s"
  /\ share.page.step = "preview"
  /\ share.page.fileData # Null

\* C17: resolving a link with a password other than the one it was made with
\* ends in an error raised to the caller, not in a null result, and the page
\* holds no field of the bundle, for file and note links alike
C17_WrongPasswordRaises ==
  (ResolvedOwnLink /\ share.page.password # share.made[1].pw) =>
    /\ share.page.result = "threw"
    /\ share.page.step = "error"
    /\ share.page.fileData = Null
    /\ share.page.noteData = Null

\* C18: a link whose bundle opens under the password typed but carries a
\* version other than 1 ends in the error step; the page holds none of its
\* fields and has not used its fetch URL, for file and note links alike
C18_UnknownVersionRejected ==
  (/\ share.page.link # Null
   /\ share.page.result # "none"
   /\ share.page.link[1].enc.key = deriveShareKey(share.page.password, share.page.link[1].salt)
   /\ share.page.link[1].enc.data.v # 1)
    => /\ share.page.step = "error"
       /\ share.page.fileData = Null
       /\ share.page.noteData = Null
       /\ ~share.page.fetched

\* a version-2 file link was opened with its password and refused
C18_Witness ==
  /\ share.page.link # Null
  /\ share.page.result # "none"
  /\ share.page.link[1].param = "s"
  /\ share.page.link[1].enc.key = deriveShareKey(share.page.password, share.page.link[1].salt)
  /\ share.page.link[1].enc.data.v # 1
  /\ share.page.step = "error"

IsCiphertext(blob) ==
  /\ {"key", "data"} \subseteq DOMAIN blob
  /\ DOMAIN blob \subseteq {"key", "nonce", "data"}

\* the keys PBKDF2 derives on the client from a password and the salt
MasterKeys == {deriveMasterKey(password, salt) : password \in Passwords, salt \in Salts}

\* the keys generateEncryptionKeyAndNonce drew on the client, as the records
\* hold them
FileKeys == {serializeEncryptionKey(id).keyBase64 : id \in Range(Uuids)}

\* the path of object p is a fixed name or a directory and a generated id
GeneratedPath(p) ==
  /\ p.id \in Range(Uuids) \cup Range(NoteIds) \cup Range(EventIds)
               \cup {".notes-manifest", ".calendar-manifest"}
  /\ p.id \notin Titles \cup Names

\* C20: in every reachable state the remote object store holds the salt in
\* the clear at .manifest.salt and otherwise only ciphertexts under keys made
\* on the client: the Collection and the notes and calendar blobs under a
\* master key, a file blob under the key of a file record; no blob carries a
\* name, the structure, a key or content outside the ciphertext, and the path
\* of every object is a fixed name or a generated id, never a record's name
C20_RemoteHoldsOnlyCiphertext ==
  /\ store.salt \in Salts \cup {NoSalt}
  /\ store.manifest # Null =>
       /\ IsCiphertext(store.manifest[1])
       /\ store.manifest[1].key \in MasterKeys
  /\ \A p \in Paths :
       objects[p] # Null =>
         /\ IsCiphertext(objects[p][1])
         /\ IF p.dir = "files/"
            THEN objects[p][1].key \in FileKeys
            ELSE objects[p][1].key \in MasterKeys
         /\ GeneratedPath(p)

\* the salt, the Collection and the blob of an uploaded file are in the store
C20_Witness ==
  /\ store.salt # NoSalt
  /\ store.manifest # Null
  /\ Len(store.manifest[1].data.files) > 0
  /\ \E id \in Range(Uuids) : objects[FilePath(id)] # Null

(* ------------------------------------------------------------------ *)
(* Where the master key is                                             *)
(* ------------------------------------------------------------------ *)

\* the fields of a Collection as JSON.stringify writes them
ManifestFields == {"version", "files", "folders", "createdAt", "updatedAt"}

\* the fields of a file record
FileFields ==
  {"fileId", "fileName", "isFavorite", "folderId", "mimeType", "keyBase64", "nonceBase64"}

\* m is null or a Collection that holds its own fields and file records only
PlainCollection(m) ==
  m # Null =>
    /\ DOMAIN m[1] = ManifestFields
    /\ \A n \in 1..Len(m[1].files) : DOMAIN m[1].files[n] \subseteq FileFields

\* C21: the master key and the password are never serialized: sessionStorage
\* holds the Collection and the unlocked flag and nothing else, the remote
\* store holds the salt and the Collection's ciphertext, whose plaintext has
\* no key in it either; the key is in module memory (manifest.ts, and the
\* copies of notes.ts) only while the store is unlocked
C21_MasterKeyNeverSerialized ==
  /\ \A i \in Inst :
       /\ DOMAIN session[i] = {"cache", "unlocked"}
       /\ DOMAIN session[i].cache = {"present", "val"}
       /\ session[i].unlocked \in BOOLEAN
       /\ session[i].cache.present \in BOOLEAN
       /\ PlainCollection(session[i].cache.val)
       /\ masterKeyCache[i] # NoKey => manifestCache[i] # Null
       /\ siblings[i].notesKey # NoKey => siblings[i].notesKey = masterKeyCache[i]
       /\ siblings[i].calendarKey # NoKey => siblings[i].calendarKey = masterKeyCache[i]
  /\ store.salt \in Salts \cup {NoSalt}
  /\ store.manifest # Null =>
       /\ DOMAIN store.manifest[1] = {"key", "data"}
       /\ PlainCollection(Some(store.manifest[1].data))

\* the store is unlocked and the session cache holds the Collection with a
\* file in it
C21_Witness ==
  /\ Unlocked(1)
  /\ session[1].unlocked
  /\ session[1].cache.val # Null
  /\ Len(session[1].cache.val[1].files) > 0
  /\ store.manifest # Null

(* ------------------------------------------------------------------ *)
(* changeManifestPassword                                              *)
(* ------------------------------------------------------------------ *)

\* the password the owner changes to
NewPasswords == {"tr0ub4dor"}

\* changeManifestPassword up to `await uploadToStorage(MANIFEST_SALT_KEY)`:
\* only manifestCache is checked; newSalt is the value generateSalt() draws
changeManifestPassword(i, t, newPassword, newSalt) ==
  /\ CanStart(i, t)
  /\ IF manifestCache[i] = Null
     THEN Begin(i, t, Settled([NewTask(i, "changePassword", "threw",
                                       [NoArg EXCEPT !.password = newPassword])
                                 EXCEPT !.solo = ~Busy(i)], "threw"))
     ELSE Begin(i, t, [NewTask(i, "changePassword", "putNewSalt",
                               [NoArg EXCEPT !.password = newPassword])
                         EXCEPT !.salt = newSalt,
                                !.key = deriveMasterKey(newPassword, newSalt)])
  /\ hist' = [hist EXCEPT ![i] = Unclean(@)]
  /\ UNCHANGED <<ext, store, manifestCache, masterKeyCache, saltCache, siblings, session,
                 now, lastPut>>

\* PUT .manifest.salt answered 2xx; the Collection as it is now is encrypted
\* under the new key (JSON.stringify of null is the text "null")
changeManifestPassword_salt(i, t) ==
  /\ tasks[i][t].kind = "changePassword"
  /\ tasks[i][t].pc = "putNewSalt"
  /\ store' = [store EXCEPT !.salt = tasks[i][t].salt]
  /\ Step(i, t, [tasks[i][t] EXCEPT !.pc = "putNewManifest",
                                    !.data = Some(manifestCache[i])])
  /\ UNCHANGED <<ext, manifestCache, masterKeyCache, saltCache, siblings, session, now,
                 lastPut, hist>>

\* PUT .manifest.enc answered 2xx; masterKeyCache and saltCache are replaced.
\* The notes and calendar blobs, and the copies of the key notes.ts keeps, are
\* not touched
changeManifestPassword_finish(i, t) ==
  /\ tasks[i][t].kind = "changePassword"
  /\ tasks[i][t].pc = "putNewManifest"
  /\ store' = [store EXCEPT !.manifest =
                 IF tasks[i][t].data[1] = Null
                 THEN Some(encryptManifest(Null, tasks[i][t].key))
                 ELSE Some(encryptManifest(tasks[i][t].data[1][1], tasks[i][t].key))]
  /\ masterKeyCache' = [masterKeyCache EXCEPT ![i] = tasks[i][t].key]
  /\ saltCache' = [saltCache EXCEPT ![i] = tasks[i][t].salt]
  /\ Finish(i, t, "resolved")
  /\ lastPut' = i
  /\ UNCHANGED <<ext, manifestCache, siblings, session, now, hist>>

\* one of the two uploads fails: the promise rejects, nothing is undone
changeManifestPassword_fail(i, t) ==
  /\ tasks[i][t].kind = "changePassword"
  /\ tasks[i][t].pc \in {"putNewSalt", "putNewManifest"}
  /\ Finish(i, t, "rejected")
  /\ UNCHANGED <<ext, store, manifestCache, masterKeyCache, saltCache, siblings, session,
                 now, lastPut, hist>>

\* the owner starts in the notes or in the calendar
InitPassword == \E sec \in {"notes", "calendar"} : InitOn(sec)

\* one tab whose caller awaits each call: the store is set up, notes or events
\* are written, the password is changed, the store is locked and unlocked
NextPassword ==
  \E i \in {1} :
    \/ lockManifest_idle(i)
    \/ CallCanStart(i) /\ initializeManifest(i, 1, "correctbatteryhorse", "s1")
    \/ uploadToStorage_salt(i, 1)
    \/ uploadToStorage_manifest(i, 1)
    \/ initializeManifest_finish(i, 1)
    \/ CallCanStart(i) /\ \E password \in {"correctbatteryhorse"} \cup NewPasswords :
                            unlockManifest(i, 1, password)
    \/ unlockManifest_salt(i, 1)
    \/ unlockManifest_manifest(i, 1)
    \/ unlockManifest_finish(i, 1)
    \/ CallCanStart(i) /\ \E newPassword \in NewPasswords :
                            changeManifestPassword(i, 1, newPassword, "s2")
    \/ changeManifestPassword_salt(i, 1)
    \/ changeManifestPassword_finish(i, 1)
    \/ changeManifestPassword_fail(i, 1)
    \/ section[i] = "notes" /\ initializeNotes(i)
    \/ section[i] = "notes" /\ \E title \in Titles : createNote(i, title)
    \/ section[i] = "calendar" /\ initializeCalendar(i)
    \/ section[i] = "calendar" /\ \E title \in Titles : createEvent(i, title)
    \/ Initialize_download(i)
    \/ putContent_ok(i)
    \/ putManifest_ok(i)
    \/ put_fail(i)

SpecPassword == InitPassword /\ [][NextPassword]_vars

\* changeManifestPassword of tab i resolves in this step
ChangeSucceeds(i) ==
  /\ tasks[i][1].kind = "changePassword"
  /\ tasks[i][1].pc = "putNewManifest"
  /\ tasks'[i][1].pc = "resolved"

\* C22: when changeManifestPassword resolves, the key derived from the new
\* password and the salt the store now holds decrypts the file Collection and
\* every notes and calendar blob (manifests and contents) that is in the store
C22_OneKeyUnlocksFamily ==
  [][\A i \in Inst :
       ChangeSucceeds(i) =>
         LET key == deriveMasterKey(tasks[i][1].arg.password, store'.salt)
         IN /\ CanDecrypt(store'.manifest[1], key)
            /\ \A p \in Paths :
                 (p.dir # "files/" /\ objects'[p] # Null) => CanDecrypt(objects'[p][1], key)]_vars

(* ------------------------------------------------------------------ *)
(* A Collection of another serialization version                       *)
(* ------------------------------------------------------------------ *)

\* a client of a later release, holding the same password, uploads the
\* Collection with version 2
newerRelease_put ==
  /\ store.manifest # Null
  /\ store.manifest[1].data.version = 1
  /\ store' = [store EXCEPT !.manifest =
                 Some(encryptManifest([store.manifest[1].data EXCEPT !.version = 2],
                                      store.manifest[1].key))]
  /\ lastPut' = 0
  /\ UNCHANGED <<ext, manifestCache, masterKeyCache, saltCache, siblings, session, tasks,
                 now, hist>>

\* one tab, call after call, on a bucket that a later release writes too
NextVersion ==
  \/ newerRelease_put
  \/ \E i \in {1} :
       \/ lockManifest(i)
       \/ \E t \in {1} :
            \/ initializeManifest(i, t, "correctbatteryhorse", "s1")
            \/ \E p \in Passwords : unlockManifest(i, t, p)
            \/ syncManifest(i, t)
            \/ \E f \in FileInputs : addFileToManifest(i, t, f)
            \/ Continue(i, t)

SpecVersion == Init /\ [][NextVersion]_vars

\* C23: a Collection whose version is not 1 is never installed as the
\* in-memory Collection and never written to the session cache, whatever
\* unlockManifest or syncManifest downloaded and decrypted
C23_UnsupportedVersionRejected ==
  \A i \in Inst :
    /\ manifestCache[i] # Null => manifestCache[i][1].version = 1
    /\ session[i].cache.val # Null => session[i].cache.val[1].version = 1

\* C24: a share resolution that fails shows one and the same message whatever
\* the cause: the message a wrong password gives is also the one a bundle of
\* an unsupported version gives, for file links and note links
C24_OneFailureMessage ==
  (share.page.link # Null /\ share.page.result \in {"threw", "null"}) =>
    share.page.error = IF share.page.link[1].param = "note"
                       THEN "Invalid password or corrupted note"
                       ELSE OperationError

(* ------------------------------------------------------------------ *)
(* Folders                                                             *)
(* ------------------------------------------------------------------ *)

\* interface Folder; parentId and a file's folderId "root" stand for undefined
Folder(id, name, parentId) == [id |-> id, name |-> name, parentId |-> parentId]

\* the records handleUpload adds while the file list shows the top level
FolderFileInputs ==
  {[fileId |-> id, fileName |-> "a.txt", isFavorite |-> "undefined", folderId |-> "root"] :
     id \in FileIds}

\* the arguments of a folder call
FolderArg(fileIds, folderId, name, deleteContents) ==
  [fileIds |-> fileIds, folderId |-> folderId, name |-> name,
   deleteContents |-> deleteContents]

HasFolder(folders, id) == \E n \in 1..Len(folders) : folders[n].id = id

\* getFilesInFolder(folderId), the sort by uploadedAt left out
getFilesInFolder(manifest, folderId) ==
  SelectSeq(manifest.files, LAMBDA f : f.folderId = folderId)

\* a folder id a caller can name: the top level, the id of a folder that was
\* created (it may be deleted by now), or an id that was never a folder's
TargetFolders == {"root", "ghost"} \cup {Uuids[n] : n \in 1..uuid.files}

\* the change is applied to manifestCache in place, updatedAt is bumped and
\* encryptManifest is called
ApplyManifest(i, t, kind, arg, files, folders) ==
  /\ LET m == [manifestCache[i][1] EXCEPT !.files = files, !.folders = folders,
                                          !.updatedAt = now]
     IN /\ manifestCache' = [manifestCache EXCEPT ![i] = Some(m)]
        /\ Begin(i, t, [NewTask(i, kind, "putManifest", arg)
                          EXCEPT !.key = masterKeyCache[i], !.data = Some(m)])
  /\ now < MaxFolderClock
  /\ now' = now + 1
  /\ hist' = [hist EXCEPT ![i] = Touch(@, i)]

\* mutant: the new folder is made its own parent
createFolder_ownParent(i, t, name, parentId) ==
  /\ CanStart(i, t)
  /\ uuid.files < MaxUuids
  /\ IF ~Unlocked(i)
     THEN /\ Threw(i, t, "createFolder", FolderArg(<<>>, parentId, name, FALSE))
          /\ UNCHANGED uuid
     ELSE LET id == Uuids[uuid.files + 1]
          IN /\ ApplyManifest(i, t, "createFolder", FolderArg(<<>>, parentId, name, FALSE),
                              manifestCache[i][1].files,
                              Append(manifestCache[i][1].folders, Folder(id, name, id)))
             /\ uuid' = [uuid EXCEPT !.files = @ + 1]
  /\ UNCHANGED <<store, masterKeyCache, saltCache, siblings, session, lastPut,
                 objects, call, share, section, conv, mode, user, tokenManager>>

\* createFolder: the id is the one crypto.randomUUID() draws
createFolder(i, t, name, parentId) ==
  /\ CanStart(i, t)
  /\ uuid.files < MaxUuids
  /\ IF ~Unlocked(i)
     THEN /\ Threw(i, t, "createFolder", FolderArg(<<>>, parentId, name, FALSE))
          /\ UNCHANGED uuid
     ELSE LET id == Uuids[uuid.files + 1]
          IN /\ ApplyManifest(i, t, "createFolder", FolderArg(<<>>, parentId, name, FALSE),
                              manifestCache[i][1].files,
                              Append(manifestCache[i][1].folders, Folder(id, name, parentId)))
             /\ uuid' = [uuid EXCEPT !.files = @ + 1]
  /\ UNCHANGED <<store, masterKeyCache, saltCache, siblings, session, lastPut,
                 objects, call, share, section, conv, mode, user, tokenManager>>

renameFolder(i, t, folderId, newName) ==
  /\ CanStart(i, t)
  /\ IF ~Unlocked(i) \/ ~HasFolder(manifestCache[i][1].folders, folderId)
     THEN Threw(i, t, "renameFolder", FolderArg(<<>>, folderId, newName, FALSE))
     ELSE LET folders == manifestCache[i][1].folders
              k == CHOOSE n \in 1..Len(folders) :
                     /\ folders[n].id = folderId
                     /\ \A j \in 1..(n - 1) : folders[j].id # folderId
          IN ApplyManifest(i, t, "renameFolder", FolderArg(<<>>, folderId, newName, FALSE),
                           manifestCache[i][1].files,
                           [folders EXCEPT ![k].name = newName])
  /\ UNCHANGED <<ext, store, masterKeyCache, saltCache, siblings, session, lastPut>>

\* deleteFolder: the files of the folder are deleted or moved to the top
\* level, the folder is filtered out; no check that the folder exists
deleteFolder(i, t, folderId, deleteContents) ==
  /\ CanStart(i, t)
  /\ IF ~Unlocked(i)
     THEN Threw(i, t, "deleteFolder", FolderArg(<<>>, folderId, "-", deleteContents))
     ELSE LET files == manifestCache[i][1].files
          IN ApplyManifest(i, t, "deleteFolder", FolderArg(<<>>, folderId, "-", deleteContents),
                           IF deleteContents
                           THEN SelectSeq(files, LAMBDA f : f.folderId # folderId)
                           ELSE [n \in 1..Len(files) |->
                                   IF files[n].folderId = folderId
                                   THEN [files[n] EXCEPT !.folderId = "root"]
                                   ELSE files[n]],
                           SelectSeq(manifestCache[i][1].folders, LAMBDA f : f.id # folderId))
  /\ UNCHANGED <<ext, store, masterKeyCache, saltCache, siblings, session, lastPut>>

\* moveFileToFolder: the first record with the id gets the folderId, which is
\* not looked up among the folders
moveFileToFolder(i, t, fileId, folderId) ==
  /\ CanStart(i, t)
  /\ IF ~Unlocked(i) \/ ~HasFile(manifestCache[i][1].files, fileId)
     THEN Threw(i, t, "moveFile", FolderArg(<<fileId>>, folderId, "-", FALSE))
     ELSE LET files == manifestCache[i][1].files
              k == FindIndex(files, fileId)
          IN ApplyManifest(i, t, "moveFile", FolderArg(<<fileId>>, folderId, "-", FALSE),
                           [files EXCEPT ![k].folderId = folderId],
                           manifestCache[i][1].folders)
  /\ UNCHANGED <<ext, store, masterKeyCache, saltCache, siblings, session, lastPut>>

\* moveFilesToFolder: every record whose id is in the list gets the folderId
moveFilesToFolder(i, t, fileIds, folderId) ==
  /\ CanStart(i, t)
  /\ IF ~Unlocked(i)
     THEN Threw(i, t, "moveFiles", FolderArg(fileIds, folderId, "-", FALSE))
     ELSE LET files == manifestCache[i][1].files
          IN ApplyManifest(i, t, "moveFiles", FolderArg(fileIds, folderId, "-", FALSE),
                           [n \in 1..Len(files) |->
                              IF files[n].fileId \in Range(fileIds)
                              THEN [files[n] EXCEPT !.folderId = folderId]
                              ELSE files[n]],
                           manifestCache[i][1].folders)
  /\ UNCHANGED <<ext, store, masterKeyCache, saltCache, siblings, session, lastPut>>

\* the selections handleMoveToFolder passes
Selections == {<<"f1">>, <<"f1", "f2">>}

\* one tab whose caller awaits each call: the store is set up, files are
\* added at the top level, folders are made, renamed and deleted, files are
\* moved; the uploads succeed (their failure is what Spec explores)
NextFolders ==
  \E i \in {1} :
    \E t \in {1} :
      \/ initializeManifest(i, t, "correctbatteryhorse", "s1")
      \/ uploadToStorage_salt(i, t)
      \/ uploadToStorage_manifest(i, t)
      \/ initializeManifest_finish(i, t)
      \/ saveAfterUpload(i, t)
      \/ \E f \in FolderFileInputs : addFileToManifest(i, t, f)
      \/ \E name \in {"docs"}, parentId \in TargetFolders : createFolder(i, t, name, parentId)
      \/ \E id \in TargetFolders \ {"root"} : renameFolder(i, t, id, "pics")
      \/ \E id \in TargetFolders \ {"root"}, deleteContents \in BOOLEAN :
           deleteFolder(i, t, id, deleteContents)
      \/ \E fileId \in FileIds, folderId \in TargetFolders :
           moveFileToFolder(i, t, fileId, folderId)
      \/ \E fileIds \in Selections, folderId \in TargetFolders :
           moveFilesToFolder(i, t, fileIds, folderId)

SpecFolders == Init /\ [][NextFolders]_vars

(* ------------------------------------------------------------------ *)
(* Claims about folders                                                *)
(* ------------------------------------------------------------------ *)

\* the step in which tab i calls moveFileToFolder or moveFilesToFolder
MoveCalled(i, t) ==
  /\ CanStart(i, t)
  /\ tasks'[i][t] # tasks[i][t]
  /\ tasks'[i][t].kind \in {"moveFile", "moveFiles"}

\* C25: a move whose folderId names no folder of the Collection either
\* rejects and leaves the Collection as it was, or leaves the moved files at
\* the top level
C25_MoveToMissingFolder ==
  [][\A i \in Inst, t \in Slots :
       (/\ MoveCalled(i, t)
        /\ manifestCache[i] # Null
        /\ tasks'[i][t].arg.folderId # "root"
        /\ ~HasFolder(manifestCache[i][1].folders, tasks'[i][t].arg.folderId))
       => \/ manifestCache'[i] = manifestCache[i]
          \/ \A n \in 1..Len(manifestCache'[i][1].files) :
               manifestCache'[i][1].files[n].fileId \in Range(tasks'[i][t].arg.fileIds)
                 => manifestCache'[i][1].files[n].folderId = "root"]_vars

\* the move that tab i called last has resolved and nothing ran since
MoveResolved(i, t) ==
  /\ tasks[i][t].kind \in {"moveFile", "moveFiles"}
  /\ tasks[i][t].pc = "resolved"
  /\ tasks[i][t].pre # Null
  /\ manifestCache[i] # Null

\* the target of the move was the top level or a folder of the Collection
TargetExisted(i, t) ==
  \/ tasks[i][t].arg.folderId = "root"
  \/ HasFolder(tasks[i][t].pre[1].folders, tasks[i][t].arg.folderId)

\* C26: after a move of a file from folder P to an existing folder F # P has
\* resolved, the files of F include the file, the files of P do not, and
\* every file that was not moved is in the folder it was in
C26_MoveChangesOneFolder ==
  \A i \in Inst, t \in Slots :
    (MoveResolved(i, t) /\ TargetExisted(i, t)) =>
      LET before == tasks[i][t].pre[1]
          after  == manifestCache[i][1]
          F      == tasks[i][t].arg.folderId
          moved  == Range(tasks[i][t].arg.fileIds)
      IN /\ \A n \in 1..Len(before.files) :
              (before.files[n].fileId \in moved /\ before.files[n].folderId # F) =>
                /\ HasFile(getFilesInFolder(after, F), before.files[n].fileId)
                /\ ~HasFile(getFilesInFolder(after, before.files[n].folderId),
                            before.files[n].fileId)
         /\ Len(after.files) = Len(before.files)
         /\ \A n \in 1..Len(before.files) :
              before.files[n].fileId \notin moved =>
                after.files[n] = before.files[n]

\* the same, on a Collection in which no two records share a fileId
C26_DistinctIds ==
  \A i \in Inst, t \in Slots :
    (/\ MoveResolved(i, t)
     /\ \A m, n \in 1..Len(tasks[i][t].pre[1].files) :
          tasks[i][t].pre[1].files[m].fileId = tasks[i][t].pre[1].files[n].fileId => m = n)
    => C26_MoveChangesOneFolder

\* the folder with the id, where there is one
FolderOf(folders, id) ==
  folders[CHOOSE n \in 1..Len(folders) : folders[n].id = id]

\* the folder ids reached from id by following parentId for k steps or fewer
RECURSIVE AncestorsOf(_, _, _)
AncestorsOf(folders, id, k) ==
  IF k = 0 \/ ~HasFolder(folders, id) THEN {}
  ELSE LET p == FolderOf(folders, id).parentId
       IN {p} \cup AncestorsOf(folders, p, k - 1)

Acyclic(folders) ==
  \A n \in 1..Len(folders) :
    folders[n].id \notin AncestorsOf(folders, folders[n].id, Len(folders))

\* C27: in the Collection of every tab, of the session cache and of the
\* bucket, no folder is its own ancestor by parentId
C27_FoldersAcyclic ==
  /\ \A i \in Inst :
       /\ manifestCache[i] # Null => Acyclic(manifestCache[i][1].folders)
       /\ session[i].cache.val # Null => Acyclic(session[i].cache.val[1].folders)
  /\ store.manifest # Null => Acyclic(store.manifest[1].data.folders)

\* folders two levels deep are in the bucket, one was renamed and one deleted
C27_Witness ==
  /\ store.manifest # Null
  /\ LET folders == store.manifest[1].data.folders
     IN /\ \E m, n \in 1..Len(folders) :
             /\ folders[n].parentId = folders[m].id
             /\ folders[m].name = "pics"
        /\ uuid.files > Len(folders)

(* ------------------------------------------------------------------ *)
(* The codecs of e2ee.ts on buffers: base64 and the query string       *)
(* ------------------------------------------------------------------ *)

MaxBytes == 3

\* bytes whose base64 text has "+", "/" and "=" in it, and bytes whose text
\* has not
ByteValues == {0, 65, 251, 255}

Buffers == UNION {[1..n -> ByteValues] : n \in 0..MaxBytes}

InitCodec ==
  \E b \in Buffers : InitWith("all", [NoConv EXCEPT !.pc = "bytes", !.data = b])

bytesToBase64_call ==
  /\ conv.pc = "bytes"
  /\ conv' = [conv EXCEPT !.pc = "encoded", !.text = bytesToBase64(conv.data)]
  /\ UNCHANGED <<store, manifestCache, masterKeyCache, saltCache, siblings, session,
                 tasks, now, lastPut, hist, objects, call, uuid, share, section,
                 mode, user, tokenManager>>

\* the link: `${origin}/share?s=${encodeURIComponent(bundleB64)}`
queryString_build ==
  /\ conv.pc = "encoded"
  /\ conv' = [conv EXCEPT !.pc = "url", !.text = encodeURIComponent(conv.text)]
  /\ UNCHANGED <<store, manifestCache, masterKeyCache, saltCache, siblings, session,
                 tasks, now, lastPut, hist, objects, call, uuid, share, section,
                 mode, user, tokenManager>>

\* searchParams.get("s"): "+" is a space in a query string, then the escapes
\* are decoded
searchParams_get ==
  /\ conv.pc = "url"
  /\ ~decodeURIComponentThrows(conv.text)
  /\ conv' = [conv EXCEPT !.pc = "param",
                          !.text = decodeURIComponent(replace(conv.text, 43, <<32>>))]
  /\ UNCHANGED <<store, manifestCache, masterKeyCache, saltCache, siblings, session,
                 tasks, now, lastPut, hist, objects, call, uuid, share, section,
                 mode, user, tokenManager>>

\* base64ToBytes of the text as it was encoded or as the page read it
base64ToBytes_call ==
  /\ conv.pc \in {"encoded", "param"}
  /\ conv' = IF base64ToBytesThrows(conv.text)
             THEN [conv EXCEPT !.pc = "threw"]
             ELSE [conv EXCEPT !.pc = "decoded", !.out = base64ToBytes(conv.text)]
  /\ UNCHANGED <<store, manifestCache, masterKeyCache, saltCache, siblings, session,
                 tasks, now, lastPut, hist, objects, call, uuid, share, section,
                 mode, user, tokenManager>>

NextCodec ==
  \/ bytesToBase64_call
  \/ queryString_build
  \/ searchParams_get
  \/ base64ToBytes_call

SpecCodec == InitCodec /\ [][NextCodec]_vars

\* C28: for every buffer, the empty one included, base64ToBytes of
\* bytesToBase64 of the buffer is the buffer, and the encoded text is the
\* same after encodeURIComponent and after the page has read it back from the
\* query string
C28_Base64RoundTrip ==
  /\ conv.pc # "threw"
  /\ conv.pc = "decoded" => conv.out = conv.data
  /\ conv.pc \in {"url", "param"} => conv.text = bytesToBase64(conv.data)

\* the same for the buffers that hold a byte
C28_NonEmpty == conv.data # <<>> => C28_Base64RoundTrip

(* ------------------------------------------------------------------ *)
(* stripFileMetadata and stripJPEGExif (e2ee.ts)                       *)
(* ------------------------------------------------------------------ *)

MaxSegments == 2

\* data[k] of a Uint8Array, k from 0: past the end it is undefined, which
\* the shift, the "or" and the Uint8Array constructor take as 0
ByteAt(data, k) == IF k < Len(data) THEN data[k + 1] ELSE 0

RECURSIVE stripLoop(_, _, _)
\* the while loop of stripJPEGExif from offset i on, result being the bytes
\* pushed so far
stripLoop(data, i, result) ==
  IF ~(i < Len(data) - 1) THEN result
  ELSE IF ByteAt(data, i) = 255 /\ ByteAt(data, i + 1) # 0
  THEN LET marker == ByteAt(data, i + 1)
           len == ByteAt(data, i + 2) * 256 + ByteAt(data, i + 3)
       IN IF marker >= 224 /\ marker <= 239 THEN stripLoop(data, i + 2 + len, result)
          ELSE IF marker = 254 THEN stripLoop(data, i + 2 + len, result)
          ELSE IF marker = 218 THEN result \o SubSeq(data, i + 1, Len(data))
          ELSE IF marker = 217 THEN result \o <<255, 217>>
          ELSE IF marker \notin {0, 1} \cup (208..215)
          THEN stripLoop(data, i + 2 + len,
                         result \o <<ByteAt(data, i), ByteAt(data, i + 1)>>
                                \o [j \in 1..len |-> ByteAt(data, i + 1 + j)])
          ELSE stripLoop(data, i + 2,
                         result \o <<ByteAt(data, i), ByteAt(data, i + 1)>>)
  ELSE stripLoop(data, i + 1, result)

stripJPEGExif(data) == stripLoop(data, 2, <<255, 216>>)

\* stripFileMetadata: only a file of type image/jpeg that begins with SOI is
\* handed to stripJPEGExif
stripFileMetadata(type, data) ==
  IF type = "image/jpeg" /\ Len(data) >= 2 /\ data[1] = 255 /\ data[2] = 216
  THEN stripJPEGExif(data)
  ELSE data

\* the segments the files are put together from: APP0, APP1, COM, a DQT
\* whose payload looks like a marker, SOF0, a DQT preceded by a fill byte
\* (T.81 B.1.1.2 allows 0xFF fill bytes before any marker), and a byte that
\* is no marker
PartKinds == {"APP0", "APP1", "COM", "DQT", "SOF0", "fillDQT", "junk"}

PartBytes(kind) ==
  CASE kind = "APP0"    -> <<255, 224, 0, 3, 74>>
    [] kind = "APP1"    -> <<255, 225, 0, 4, 69, 120>>
    [] kind = "COM"     -> <<255, 254, 0, 3, 99>>
    [] kind = "DQT"     -> <<255, 219, 0, 4, 255, 225>>
    [] kind = "SOF0"    -> <<255, 192, 0, 3, 8>>
    [] kind = "fillDQT" -> <<255, 255, 219, 0, 3, 7>>
    [] kind = "junk"    -> <<18>>

\* SOS with its header, entropy-coded data with a stuffed 0xFF00 and an RST0,
\* and EOI
ScanBytes == <<255, 218, 0, 3, 1, 167, 255, 0, 255, 208, 66, 255, 217>>

RECURSIVE Concat(_)
Concat(parts) ==
  IF parts = <<>> THEN <<>> ELSE PartBytes(Head(parts)) \o Concat(Tail(parts))

JpegBytes(parts) == <<255, 216>> \o Concat(parts) \o ScanBytes

\* a file that is no JPEG, for the browser and by its first bytes
PngBytes == <<137, 80, 78, 71, 255, 225, 0, 2>>

\* the files handed to stripFileMetadata: JPEG files whole and cut short at
\* every length, under the type image/jpeg and under another, and a PNG file
\* under both
InitStrip ==
  \/ \E n \in 1..MaxSegments :
       \E parts \in [1..n -> PartKinds] :
         \E cut \in 2..Len(JpegBytes(parts)), type \in {"image/jpeg", "image/png"} :
           InitWith("all", [NoConv EXCEPT !.pc = "file", !.type = type, !.parts = parts,
                                          !.data = SubSeq(JpegBytes(parts), 1, cut)])
  \/ \E cut \in 0..Len(PngBytes), type \in {"image/jpeg", "image/png"} :
       InitWith("all", [NoConv EXCEPT !.pc = "file", !.type = type,
                                      !.data = SubSeq(PngBytes, 1, cut)])

stripFileMetadata_call ==
  /\ conv.pc = "file"
  /\ conv' = [conv EXCEPT !.pc = "stripped",
                          !.out = stripFileMetadata(conv.type, conv.data)]
  /\ UNCHANGED <<store, manifestCache, masterKeyCache, saltCache, siblings, session,
                 tasks, now, lastPut, hist, objects, call, uuid, share, section,
                 mode, user, tokenManager>>

NextStrip == stripFileMetadata_call

SpecStrip == InitStrip /\ [][NextStrip]_vars

\* stripJPEGExif ran on the file
JpegStripped ==
  /\ conv.pc = "stripped"
  /\ conv.type = "image/jpeg"
  /\ Len(conv.data) >= 2 /\ conv.data[1] = 255 /\ conv.data[2] = 216

RECURSIVE ParsesCleanly(_, _)
\* from offset i on (counted from 0) the buffer is markers with their
\* segments, each whole and inside the buffer, up to and with the header of
\* SOS; fill bytes may precede a marker
ParsesCleanly(data, i) ==
  /\ i + 3 < Len(data)
  /\ data[i + 1] = 255
  /\ IF data[i + 2] = 255 THEN ParsesCleanly(data, i + 1)
     ELSE LET marker == data[i + 2]
              len == data[i + 3] * 256 + data[i + 4]
          IN /\ marker \in (192..207) \cup (218..254)
             /\ len >= 2
             /\ i + 2 + len <= Len(data)
             /\ marker # 218 => ParsesCleanly(data, i + 2 + len)

\* C29: a JPEG file whose segments up to start-of-scan do not parse cleanly
\* (a segment runs past the end of the buffer, a byte that is no marker
\* stands where a marker is expected) comes back from stripFileMetadata
\* byte for byte
C29_MalformedJpegUnchanged ==
  (JpegStripped /\ ~ParsesCleanly(conv.data, 2)) => conv.out = conv.data

\* the file is a whole JPEG with an APP1 segment, put together from segments
\* alone
WellFormedWithExif ==
  /\ conv.pc = "stripped"
  /\ conv.type = "image/jpeg"
  /\ conv.parts # <<>>
  /\ conv.data = JpegBytes(conv.parts)
  /\ "APP1" \in Range(conv.parts)
  /\ "junk" \notin Range(conv.parts)

\* the segments that are neither APPn nor COM, as they are in the file
Kept(parts) == SelectSeq(parts, LAMBDA k : k \notin {"APP0", "APP1", "COM"})

\* C30: from a well-formed baseline JPEG with an APP1 segment
\* stripFileMetadata returns a shorter buffer: SOI, the segments that are
\* neither APPn nor COM byte for byte and in order, and every byte from SOS
\* on; a file that is no JPEG comes back byte for byte
C30_ExifStripped ==
  /\ WellFormedWithExif =>
       /\ Len(conv.out) < Len(conv.data)
       /\ conv.out = JpegBytes(Kept(conv.parts))
  /\ (conv.pc = "stripped" /\ ~JpegStripped) => conv.out = conv.data

\* the same for the files in which no fill byte precedes a marker
C30_NoFillBytes == "fillDQT" \notin Range(conv.parts) => C30_ExifStripped

(* ------------------------------------------------------------------ *)
(* Claims about the calls of one tab that overlap a sync               *)
(* ------------------------------------------------------------------ *)

\* the step in which the continuation of syncManifest installs what it
\* downloaded
SyncInstalls(i, t) ==
  /\ tasks[i][t].kind = "sync"
  /\ tasks[i][t].pc = "decrypted"
  /\ tasks'[i][t].pc # "decrypted"
  /\ manifestCache'[i] = tasks[i][t].data

\* the record is in the tab's Collection and in the bucket's, and no call
\* that adds it is still in flight: the addFileToManifest that added it has
\* resolved
AddedAndResolved(i, id) ==
  /\ manifestCache[i] # Null
  /\ HasFile(manifestCache[i][1].files, id)
  /\ store.manifest # Null
  /\ HasFile(store.manifest[1].data.files, id)
  /\ \A s \in Slots :
       ~(InFlight(tasks[i][s]) /\ tasks[i][s].kind = "addFile"
                               /\ tasks[i][s].arg.fileId = id)

\* C31: a record whose addFileToManifest has resolved is still in the tab's
\* Collection after a syncManifest that ran at the same time has finished,
\* no other tab writing the bucket
C31_SyncKeepsAddedRecords ==
  [][\A i \in Inst, t \in Slots, id \in FileIds :
       (SyncInstalls(i, t) /\ AddedAndResolved(i, id))
         => /\ manifestCache'[i] # Null
            /\ HasFile(manifestCache'[i][1].files, id)]_vars

\* C32: whenever the bucket holds the salt it holds the manifest too, and
\* the manifest decrypts under the key derived from that salt and a password
\* the user has set or is setting
C32_SaltHasItsManifest ==
  store.salt # NoSalt =>
    /\ store.manifest # Null
    /\ \E p \in Passwords \cup NewPasswords :
         CanDecrypt(store.manifest[1], deriveMasterKey(p, store.salt))

\* C33: initializeNotes and initializeCalendar replace the object at the
\* path of their Collection only when the bucket holds no object there
C33_EmptyOnlyWhenAbsent ==
  [][\A i \in Inst :
       (/\ call[i].op = "initialize"
        /\ call[i].pc = "putManifest"
        /\ objects'[ManifestPath(call[i].kind)] # objects[ManifestPath(call[i].kind)])
       => objects[ManifestPath(call[i].kind)] = Null]_vars

(* ------------------------------------------------------------------ *)
(* The unlock screen: ManifestUnlock and the page that mounts it       *)
(* ------------------------------------------------------------------ *)

\* mode is "check", "create" or "unlock" while ManifestUnlock is rendered
\* and "unmounted" while the page renders the file manager instead

\* manifestExists: the download of the salt answered, with the salt or with
\* 404; setMode(exists ? "unlock" : "create")
manifestExists_answer(i) ==
  /\ mode[i] = "check"
  /\ mode' = [mode EXCEPT ![i] = IF store.salt # NoSalt THEN "unlock" ELSE "create"]
  /\ UNCHANGED <<store, manifestCache, masterKeyCache, saltCache, siblings, session,
                 tasks, now, lastPut, hist, objects, call, uuid, share, section, conv,
                 user, tokenManager>>

\* manifestExists: the download failed in transit or answered 5xx; the catch
\* block returns false
manifestExists_fail(i) ==
  /\ mode[i] = "check"
  /\ mode' = [mode EXCEPT ![i] = "create"]
  /\ UNCHANGED <<store, manifestCache, masterKeyCache, saltCache, siblings, session,
                 tasks, now, lastPut, hist, objects, call, uuid, share, section, conv,
                 user, tokenManager>>

\* handleSubmit of ManifestUnlock; the form is disabled while isLoading
handleSubmit(i, t, password, salt) ==
  /\ mode[i] \in {"create", "unlock"}
  /\ tasks[i][t].pc # "resolved"
  /\ IF mode[i] = "create"
     THEN initializeManifest(i, t, password, salt)
     ELSE unlockManifest(i, t, password)

\* onUnlocked(): setManifestUnlocked(true), the page renders the file manager
onUnlocked(i, t) ==
  /\ mode[i] \in {"create", "unlock"}
  /\ tasks[i][t].kind \in {"init", "unlock"}
  /\ tasks[i][t].pc = "resolved"
  /\ mode' = [mode EXCEPT ![i] = "unmounted"]
  /\ UNCHANGED <<store, manifestCache, masterKeyCache, saltCache, siblings, session,
                 tasks, now, lastPut, hist, objects, call, uuid, share, section, conv,
                 user, tokenManager>>

\* handleLockManifest: lockManifest(); setManifestUnlocked(false)
handleLockManifest(i) ==
  /\ mode[i] = "unmounted"
  /\ ~Busy(i)
  /\ manifestCache[i] # Null
  /\ lockManifest(i)

\* the page renders ManifestUnlock again, which starts with the probe
ManifestUnlock_mount(i) ==
  /\ mode[i] = "unmounted"
  /\ manifestCache[i] = Null
  /\ mode' = [mode EXCEPT ![i] = "check"]
  /\ UNCHANGED <<store, manifestCache, masterKeyCache, saltCache, siblings, session,
                 tasks, now, lastPut, hist, objects, call, uuid, share, section, conv,
                 user, tokenManager>>

\* one tab from the unlock screen to the file manager and back
NextProbe ==
  \E i \in {1} :
    \E t \in {1} :
      \/ manifestExists_answer(i)
      \/ manifestExists_fail(i)
      \/ \E p \in Passwords, salt \in Salts : handleSubmit(i, t, p, salt)
      \/ onUnlocked(i, t)
      \/ handleLockManifest(i)
      \/ ManifestUnlock_mount(i)
      \/ mode[i] = "unmounted" /\ \E f \in FileInputs : addFileToManifest(i, t, f)
      \/ mode[i] = "unmounted" /\ syncManifest(i, t)
      \/ Continue(i, t)

SpecProbe == Init /\ [][NextProbe]_vars

\* C34: initializeManifest replaces the salt of a bucket only when the bucket
\* holds no store: no salt together with a manifest
C34_ProbeFailureKeepsStore ==
  [][\A i \in Inst, t \in Slots :
       (/\ tasks[i][t].kind = "init"
        /\ tasks[i][t].pc = "putSalt"
        /\ tasks'[i][t].pc = "putManifest")
       => ~(store.salt # NoSalt /\ store.manifest # Null)]_vars

(* ------------------------------------------------------------------ *)
(* Page reload: module memory is reset, sessionStorage stays           *)
(* ------------------------------------------------------------------ *)

\* the page is loaded anew: the module variables of manifest.ts and notes.ts
\* start as null, the calls in flight are gone with the old page, the unlock
\* screen starts in "check"; sessionStorage is the tab's and stays
reload(i) ==
  /\ manifestCache' = [manifestCache EXCEPT ![i] = Null]
  /\ masterKeyCache' = [masterKeyCache EXCEPT ![i] = NoKey]
  /\ saltCache' = [saltCache EXCEPT ![i] = NoSalt]
  /\ siblings' = [siblings EXCEPT ![i] = NoSiblings]
  /\ tasks' = [tasks EXCEPT ![i] = [s \in Slots |-> IdleTask]]
  /\ call' = [call EXCEPT ![i] = NoCall]
  /\ mode' = [mode EXCEPT ![i] = "check"]
  /\ hist' = [hist EXCEPT ![i] = NoHist]
  /\ tokenManager' = [tokenManager EXCEPT ![i] =       \* a new TokenManager; TokenStorage is kept
                        [NoRefresh EXCEPT !.accessExpired = tokenManager[i].accessExpired,
                                          !.refreshExpired = tokenManager[i].refreshExpired,
                                          !.sent = tokenManager[i].sent]]
  /\ UNCHANGED <<store, session, now, lastPut, objects, uuid, share, section, conv, user>>

\* loadFromSessionCache(): JSON.parse of the cached text, null without it
loadFromSessionCache(i) == session[i].cache.val

\* getManifest(), which getFilesFromManifest, getFolders and the other
\* synchronous getters call: the cache, or else the session cache, which it
\* installs as the cache
getManifest(i) ==
  /\ manifestCache[i] = Null
  /\ loadFromSessionCache(i) # Null
  /\ manifestCache' = [manifestCache EXCEPT ![i] = loadFromSessionCache(i)]
  /\ UNCHANGED <<store, masterKeyCache, saltCache, siblings, session, tasks, now,
                 lastPut, hist, objects, call, uuid, share, section, conv, mode, user, tokenManager>>

isManifestUnlocked(i) == session[i].unlocked /\ manifestCache[i] # Null

getMasterKey(i) == masterKeyCache[i]

\* one tab whose caller awaits each call, which is locked, reloaded and
\* whose getters are called at any time
NextReload ==
  \E i \in {1} :
    \/ lockManifest(i)
    \/ reload(i)
    \/ getManifest(i)
    \/ \E t \in {1} : Setup(i, t) \/ Use(i, t) \/ Continue(i, t)

SpecReload == Init /\ [][NextReload]_vars

\* C35: whenever isManifestUnlocked() is true getMasterKey() is not null and
\* the guard of the mutations passes
C35_UnlockedHoldsKey ==
  \A i \in Inst :
    isManifestUnlocked(i) => (getMasterKey(i) # NoKey /\ Unlocked(i))

(* ------------------------------------------------------------------ *)
(* TokenManager (tokenManager.ts) and the sign-in state of AuthContext *)
(* ------------------------------------------------------------------ *)

\* what the TokenManager and AuthContext leave alone
storeVars == <<store, manifestCache, masterKeyCache, saltCache, siblings, session,
               tasks, now, lastPut, hist, objects, call, uuid, share, section,
               conv, mode>>

\* the bodies of refresh promises that have not returned
Pending(tm) == {r \in Refreshes : tm.requests[r] \in {"csrf", "fetch", "json"}}

\* the promises created so far
Created(tm) == {r \in Refreshes : tm.requests[r] # "none"}

\* the access token passes its expiry (TokenStorage.isAccessTokenExpired())
accessToken_expires(i) ==
  /\ ~tokenManager[i].accessExpired
  /\ tokenManager' = [tokenManager EXCEPT ![i].accessExpired = TRUE]
  /\ UNCHANGED <<storeVars, user>>

\* the refresh token, which outlives the access token, passes its expiry
refreshToken_expires(i) ==
  /\ tokenManager[i].accessExpired
  /\ ~tokenManager[i].refreshExpired
  /\ tokenManager' = [tokenManager EXCEPT ![i].refreshExpired = TRUE]
  /\ UNCHANGED <<storeVars, user>>

\* the onLogout callback AuthContext hands to tokenManager.initialize:
\* setUser(null) and, in the callback of initializeAuth, TokenStorage.clearTokens(),
\* after which TokenStorage answers either way; tm is the TokenManager's next state
onLogoutCallback(i, tm) ==
  /\ user' = [user EXCEPT ![i] = FALSE]
  /\ \E a, r \in BOOLEAN :
       tokenManager' = [tokenManager EXCEPT ![i] =
                          [tm EXCEPT !.accessExpired = a, !.refreshExpired = r]]

\* the finally of the promise's body and the callers its settling resumes
settle(tm, r) ==
  [tm EXCEPT !.refreshPromise = 0,
             !.requests[r] = "done",
             !.waiting = [c \in Callers |-> IF tm.waiting[c] = r THEN 0 ELSE tm.waiting[c]]]

\* a refreshAccessToken() that does not look at this.refreshPromise
refreshAccessToken_noMarker(i, c) ==
  LET tm == tokenManager[i]
      r  == Cardinality(Created(tm)) + 1
  IN /\ r \in Refreshes
     /\ tokenManager' = [tokenManager EXCEPT ![i].refreshPromise = r,
                                             ![i].requests[r] = "csrf",
                                             ![i].waiting[c] = r]
     /\ UNCHANGED <<storeVars, user>>

\* refreshAccessToken(): up to its await, for caller c
refreshAccessToken(i, c) ==
  LET tm == tokenManager[i]
      r  == Cardinality(Created(tm)) + 1
  IN /\ IF tm.refreshPromise # 0
        THEN tokenManager' = [tokenManager EXCEPT ![i].waiting[c] = tm.refreshPromise]
        ELSE /\ r \in Refreshes
             /\ tokenManager' = [tokenManager EXCEPT ![i].refreshPromise = r,
                                                     ![i].requests[r] = "csrf",
                                                     ![i].waiting[c] = r]
     /\ UNCHANGED <<storeVars, user>>

\* getValidAccessToken(): up to its first await, for caller c
getValidAccessToken(i, c) ==
  /\ tokenManager[i].waiting[c] = 0
  /\ tokenManager[i].accessExpired
  /\ IF tokenManager[i].refreshExpired
     THEN onLogoutCallback(i, tokenManager[i]) /\ UNCHANGED storeVars
     ELSE refreshAccessToken(i, c)

\* the callback of setInterval in startAutoRefresh
startAutoRefresh_tick(i, c) ==
  /\ tokenManager[i].refreshIntervalId
  /\ tokenManager[i].accessExpired /\ ~tokenManager[i].refreshExpired
  /\ getValidAccessToken(i, c)

\* await getCsrfToken() returns: the body sends POST /auth/refresh; when it
\* throws the body returns false through catch and finally
getCsrfToken_returns(i, r, ok) ==
  /\ tokenManager[i].requests[r] = "csrf"
  /\ tokenManager' = [tokenManager EXCEPT ![i] =
                        IF ok THEN [@ EXCEPT !.requests[r] = "fetch"] ELSE settle(@, r)]
  /\ UNCHANGED <<storeVars, user>>

RefreshAnswers == {"ok", "401", "500", "throw"}

\* await fetch(.../auth/refresh) returns or throws
fetch_returns(i, r, answer) ==
  /\ tokenManager[i].requests[r] = "fetch"
  /\ CASE answer = "ok" ->
            /\ tokenManager' = [tokenManager EXCEPT ![i].requests[r] = "json"]
            /\ UNCHANGED user
       [] answer = "401" -> onLogoutCallback(i, settle(tokenManager[i], r))
       [] OTHER ->
            /\ tokenManager' = [tokenManager EXCEPT ![i] = settle(@, r)]
            /\ UNCHANGED user
  /\ UNCHANGED storeVars

\* await response.json() returns: saveTokens and onTokenRefreshed when the
\* body carries both expiries, false otherwise and when it throws
json_returns(i, r, success) ==
  /\ tokenManager[i].requests[r] = "json"
  /\ tokenManager' = [tokenManager EXCEPT ![i] =
                        IF success
                        THEN [settle(@, r) EXCEPT !.accessExpired = FALSE,
                                                  !.refreshExpired = FALSE]
                        ELSE settle(@, r)]
  /\ UNCHANGED <<storeVars, user>>

\* handleLogout of the files page up to the first await of logout():
\* lockManifest(), then tokenManager.logout() waits for getCsrfToken()
handleLogout(i) ==
  /\ user[i]
  /\ ~tokenManager[i].leaving
  /\ lockManifest_body(i)
  /\ tokenManager' = [tokenManager EXCEPT ![i].leaving = TRUE]
  /\ UNCHANGED <<store, now, lastPut, objects, call, uuid, share, section, conv, mode, user>>

\* the finally blocks of tokenManager.logout() and AuthContext.logout():
\* clearTokens, setUser(null) and window.location.href = "/login", which loads
\* a new page: the module variables start over, sessionStorage is kept
logout(i) ==
  /\ tokenManager[i].leaving
  /\ user' = [user EXCEPT ![i] = FALSE]
  /\ \E a, r \in BOOLEAN :
       tokenManager' = [tokenManager EXCEPT ![i] =
                          [NoRefresh EXCEPT !.refreshIntervalId = FALSE,
                                            !.accessExpired = a,
                                            !.refreshExpired = r]]
  /\ manifestCache' = [manifestCache EXCEPT ![i] = Null]
  /\ masterKeyCache' = [masterKeyCache EXCEPT ![i] = NoKey]
  /\ saltCache' = [saltCache EXCEPT ![i] = NoSalt]
  /\ siblings' = [siblings EXCEPT ![i] = NoSiblings]
  /\ tasks' = [tasks EXCEPT ![i] = [s \in Slots |-> IdleTask]]
  /\ call' = [call EXCEPT ![i] = NoCall]
  /\ mode' = [mode EXCEPT ![i] = "check"]
  /\ hist' = [hist EXCEPT ![i] = NoHist]
  /\ UNCHANGED <<store, session, now, lastPut, objects, uuid, share, section, conv>>

\* login() of AuthContext: saveTokens, setUser, tokenManager.initialize
login(i) ==
  /\ ~user[i]
  /\ ~tokenManager[i].leaving
  /\ user' = [user EXCEPT ![i] = TRUE]
  /\ tokenManager' = [tokenManager EXCEPT ![i].refreshIntervalId = TRUE,
                                          ![i].accessExpired = FALSE,
                                          ![i].refreshExpired = FALSE]
  /\ UNCHANGED storeVars

\* the steps of the TokenManager of tab i whose callers are cs
TokenSteps(i, cs) ==
  \/ accessToken_expires(i)
  \/ refreshToken_expires(i)
  \/ \E c \in cs : getValidAccessToken(i, c)
  \/ \E c \in cs : startAutoRefresh_tick(i, c)
  \/ \E r \in Refreshes, ok \in BOOLEAN : getCsrfToken_returns(i, r, ok)
  \/ \E r \in Refreshes, answer \in RefreshAnswers : fetch_returns(i, r, answer)
  \/ \E r \in Refreshes, success \in BOOLEAN : json_returns(i, r, success)

\* the files page is shown to a signed-in user who is not signing out
SignedIn(i) == user[i] /\ ~tokenManager[i].leaving

\* one signed-in tab: the unlock screen, the auto-refresh of the file list,
\* the TokenManager behind the page and the ways its session ends
NextLogout ==
  \E i \in {1} :
    \/ TokenSteps(i, {1})
    \/ handleLogout(i)
    \/ logout(i)
    \/ login(i)
    \/ SignedIn(i) /\ ~Busy(i) /\ initializeManifest(i, 1, "correctbatteryhorse", "s1")
    \/ SignedIn(i) /\ ~Busy(i) /\ unlockManifest(i, 1, "correctbatteryhorse")
    \/ SignedIn(i) /\ ~Busy(i) /\ syncManifest(i, 1)
    \/ SignedIn(i) /\ ~Busy(i) /\ addFileToManifest(i, 1, FileInfo("f1", "a.txt"))
    \/ Continue(i, 1)

SpecLogout == Init /\ [][NextLogout]_vars

\* lockManifest() has run and nothing has refilled what it cleared
Locked(i) ==
  /\ manifestCache[i] = Null
  /\ masterKeyCache[i] = NoKey
  /\ siblings[i] = NoSiblings
  /\ session[i] = NoSession

\* C36: once the user is null, by handleLogout or by the onLogout callback of
\* the TokenManager, the MasterKey and the decrypted Collections are neither in
\* memory nor in the session cache
C36_LogoutLocksStore == \A i \in Inst : ~user[i] => Locked(i)

\* one tab's TokenManager with all its callers, through sign-out and sign-in
NextToken ==
  \E i \in {1} :
    \/ TokenSteps(i, Callers)
    \/ handleLogout(i)
    \/ logout(i)
    \/ login(i)

SpecToken == Init /\ [][NextToken]_vars

\* C39: at most one body of a refresh promise is running, it is the one
\* this.refreshPromise names (null when none runs, so the next call creates a
\* new one), and every caller that waits awaits that promise
C39_OneRefreshInFlight ==
  \A i \in Inst :
    LET tm == tokenManager[i] IN
      /\ Cardinality(Pending(tm)) <= 1
      /\ Pending(tm) = IF tm.refreshPromise = 0 THEN {} ELSE {tm.refreshPromise}
      /\ \A c \in Callers : tm.waiting[c] # 0 => tm.waiting[c] = tm.refreshPromise

\* a first request has settled, a later call has sent a second POST
\* /auth/refresh and two callers await it
C39_Witness ==
  \E i \in Inst :
    LET tm == tokenManager[i] IN
      /\ tm.requests[1] = "done"
      /\ tm.requests[2] = "fetch"
      /\ Cardinality({c \in Callers : tm.waiting[c] = 2}) >= 2

(* ------------------------------------------------------------------ *)
(* Claims about deleteFolder                                           *)
(* ------------------------------------------------------------------ *)

\* the deleteFolder that tab i called last has resolved and nothing ran since
DeleteFolderResolved(i, t) ==
  /\ tasks[i][t].kind = "deleteFolder"
  /\ tasks[i][t].pc = "resolved"
  /\ manifestCache[i] # Null

\* no folder and no file of the Collection refers to folder F
Unreferenced(manifest, F) ==
  /\ \A n \in 1..Len(manifest.folders) : manifest.folders[n].parentId # F
  /\ \A n \in 1..Len(manifest.files) : manifest.files[n].folderId # F

\* C37: after deleteFolder(F) has resolved no folder has parentId F and no
\* file has folderId F, and every parent reference of the Collection is
\* undefined or names one of its folders
C37_DeleteFolderLeavesNoOrphans ==
  \A i \in Inst, t \in Slots :
    DeleteFolderResolved(i, t) =>
      LET after == manifestCache[i][1] IN
        /\ Unreferenced(after, tasks[i][t].arg.folderId)
        /\ \A n \in 1..Len(after.folders) :
             \/ after.folders[n].parentId = "root"
             \/ HasFolder(after.folders, after.folders[n].parentId)
        /\ \A n \in 1..Len(after.files) :
             \/ after.files[n].folderId = "root"
             \/ HasFolder(after.folders, after.files[n].folderId)

(* ------------------------------------------------------------------ *)
(* Records and their blobs (handleUpload, handleDelete, createNote,    *)
(* deleteNote)                                                         *)
(* ------------------------------------------------------------------ *)

\* one tab on the file list or on the notes, over a store it has initialized:
\* files and notes are created and deleted, one call after the other, and
\* every upload and delete may fail
NextBlobs ==
  \E i \in {1} :
    \/ CallCanStart(i) /\ initializeManifest(i, 1, "correctbatteryhorse", "s1")
    \/ uploadToStorage_salt(i, 1)
    \/ uploadToStorage_manifest(i, 1)
    \/ uploadToStorage_fail(i, 1)
    \/ initializeManifest_finish(i, 1)
    \/ saveAfterUpload(i, 1)
    \/ section[i] = "all" /\ handleUpload(i, <<"r">>, "root")
    \/ handleUpload_put(i)
    \/ blob_fail(i)
    \/ section[i] = "all" /\ \E n \in 1..MaxUuids : handleDelete(i, Uuids[n])
    \/ section[i] = "notes" /\ initializeNotes(i)
    \/ Initialize_download(i)
    \/ Initialize_downloadFails(i)
    \/ section[i] = "notes" /\ \E title \in Titles : createNote(i, title)
    \/ section[i] = "notes" /\ \E id \in Range(NoteIds) : deleteNote(i, id)
    \/ deleteFromStorage_ok(i)
    \/ deleteFromStorage_fail(i)
    \/ putContent_ok(i)
    \/ putManifest_ok(i)
    \/ put_fail(i)

SpecBlobs == InitStores /\ [][NextBlobs]_vars

\* C38: every file record of the remote file manifest has its blob at
\* files/<fileId> and every note record of the remote notes manifest has its
\* content blob
C38_RemoteRecordsHaveBlobs ==
  /\ store.manifest # Null =>
       \A n \in 1..Len(store.manifest[1].data.files) :
         objects[FilePath(store.manifest[1].data.files[n].fileId)] # Null
  /\ objects[NOTES_MANIFEST_KEY] # Null =>
       \A n \in 1..Len(objects[NOTES_MANIFEST_KEY][1].data.notes) :
         objects[NotePath(objects[NOTES_MANIFEST_KEY][1].data.notes[n].id)] # Null

====
